---- MODULE Spec2Model ----
(***************************************************************************)
(* A model of the memlayer engine (src/memlayer): the embedded store with  *)
(* its tables, the idempotency gate, the ingestion operations, graph       *)
(* expansion with the optional accelerator, and the governance operations. *)
(*                                                                         *)
(* Abstractions, all of them of data the modelled code never branches on:  *)
(*   - a uuid4() is a fresh number drawn from a per-table range, so ids of *)
(*     different tables never collide (L0: 100+n, L1: 200+n, L2: 300+n);   *)
(*   - a confidence is kept in tenths (10 is 1.0, 8 is 0.8, 5 is 0.5);     *)
(*   - timestamps are integers in hours of an abstract clock `now`;        *)
(*   - a relation label is the sequence of its characters;                *)
(*   - the accelerator is reachable or not call by call (a call that finds *)
(*     it unreachable is a call on a disabled accelerator: both log the    *)
(*     failure and return False or None), and a process started without it*)
(*     is followed by one started with it;                                 *)
(*   - tags, entities, applicability and summary of a payload travel with  *)
(*     its title and claims in the same statements and are not kept.       *)
(***************************************************************************)
EXTENDS Integers, FiniteSets, Sequences, Bags, TLC

VARIABLES
    memory_l0,          \* table memory_l0: set of rows
    memory_l1,          \* table memory_l1: set of rows
    memory_l1_fts,      \* virtual table memory_l1_fts: a bag of rows (no key)
    memory_l2_nodes,    \* table memory_l2_nodes: set of rows
    memory_l2_fts,      \* virtual table memory_l2_fts: a bag of rows (no key)
    memory_artifacts,   \* table memory_artifacts: set of rows
    memory_l2_edges,    \* table memory_l2_edges: set of rows
    tombstones,         \* table tombstones: set of rows
    idempotency,        \* table idempotency: set of rows
    graph_nodes,        \* accelerator: ids of the projected L2Node vertices
    graph_edges,        \* accelerator: projected relationships
    minted,             \* how many uuids each tier has drawn
    now,                \* the clock, in hours
    last,               \* the last call: operation, arguments, outcome
    firstCall,          \* history: the first successful call per (tenant, key)
    procs               \* the processes running a call statement by statement

tables == <<memory_l0, memory_l1, memory_l1_fts, memory_l2_nodes, memory_l2_fts,
            memory_artifacts, memory_l2_edges, tombstones, idempotency>>

vars == <<memory_l0, memory_l1, memory_l1_fts, memory_l2_nodes, memory_l2_fts,
          memory_artifacts, memory_l2_edges, tombstones, idempotency,
          graph_nodes, graph_edges, minted, now, last, firstCall, procs>>

----------------------------------------------------------------------------
(* Bounds of the model. *)

MaxL0 == 2
MaxL1 == 3
MaxL2 == 2
MaxHops == 2

(* Python's None, for text columns and for id columns. *)
None == "None"
NoId == 0

L0Base == 100
L1Base == 200
L2Base == 300

L0Ids == {L0Base + n : n \in 1..MaxL0}
L1Ids == {L1Base + n : n \in 1..MaxL1}
L2Ids == {L2Base + n : n \in 1..MaxL2}

----------------------------------------------------------------------------
(* models.py: the inputs. *)

Scope(t, w, repo, mod, user, session, task) ==
    [tenant_id |-> t, workspace_id |-> w, repo_id |-> repo, module |-> mod,
     user_id |-> user, session_id |-> session, task_id |-> task]

ScopeS1 == Scope("t1", "w1", "r1", "core", "u1", "s1", "k1")
ScopeTask == Scope("t1", "w1", "r1", "core", None, None, "k1")
ScopeS2 == Scope("t1", "w1", None, None, None, "s2", "k1")
ScopeT2 == Scope("t2", "w1", "r1", "core", "u1", "s1", None)
ScopeW2 == Scope("t1", "w2", "r1", "core", "u1", "s1", None)
ScopeBare == Scope("t1", "w1", None, None, None, None, None)
ScopeR2 == Scope("t1", "w1", "r2", "core", "u1", "s1", None)

EventLeak == [content |-> "leak"]
EventCrash == [content |-> "crash"]

Episode1 == [title |-> "Ep1", claims |-> <<>>]
Episode2 == [title |-> "Ep1 Updated", claims |-> <<"c1">>]

L2Types == {"Decision", "Contract", "VerifiedFact", "StableConstraint"}

DraftFact == [type |-> "VerifiedFact", title |-> "Fact", claims |-> <<"c1">>]
DraftLeak == [type |-> "Decision", title |-> "Leak", claims |-> <<"c1">>]
DraftNoClaims == [type |-> "VerifiedFact", title |-> "Fact", claims |-> <<>>]
DraftBadType == [type |-> "Invalid", title |-> "Fact", claims |-> <<"c1">>]
DraftBadBoth == [type |-> "Invalid", title |-> "Fact", claims |-> <<>>]

(* A relation label is the sequence of its characters. *)
RelatedTo == <<"R", "E", "L", "_", "T", "O">>
DependsOn == <<"D", "E", "P", "-", "O", "N">>

IsAlnumOrUnderscore(x) == x \in {"R", "E", "L", "T", "O", "D", "P", "N", "_"}

(* The memory_id of an incoming artifact ref is a placeholder: "x" in the
   tests (NoId here), or any id the caller happens to give. *)
ArtifactFile ==
    [memory_id |-> NoId, layer |-> "L2", kind |-> "file", locator |-> "a.txt",
     snippet_policy |-> "allowed"]
ArtifactGone ==
    [memory_id |-> NoId, layer |-> "L2", kind |-> "file", locator |-> "gone.txt",
     snippet_policy |-> "allowed"]
ArtifactUrl ==
    [memory_id |-> L2Base + 1, layer |-> "L1", kind |-> "url", locator |-> "u",
     snippet_policy |-> "forbidden"]

ObservationTitle(content) ==
    IF content = "leak" THEN "Observation: leak" ELSE "Observation: crash"

----------------------------------------------------------------------------
(* db.py: the store as one value, and the connection's transaction. *)

Store ==
    [l0 |-> memory_l0, l1 |-> memory_l1, l1_fts |-> memory_l1_fts,
     l2 |-> memory_l2_nodes, l2_fts |-> memory_l2_fts,
     artifacts |-> memory_artifacts, edges |-> memory_l2_edges,
     tombstones |-> tombstones, idem |-> idempotency]

EmptyStore ==
    [l0 |-> {}, l1 |-> {}, l1_fts |-> EmptyBag, l2 |-> {}, l2_fts |-> EmptyBag,
     artifacts |-> {}, edges |-> {}, tombstones |-> {}, idem |-> {}]

(* conn.commit(): the statements executed on the connection become the store. *)
Commit(committed, working) == working

(* A connection in autocommit mode: closing keeps what the statements wrote. *)
Close_autocommit(committed, working) == working

(* conn.close() in the finally of get_db_connection, with no commit before it:
   sqlite discards the open transaction. *)
Close(committed, working) == committed

(* A transaction is the list of the working stores after each of its
   statements, whether one of its statements raises sqlite3.IntegrityError
   after them, and the value the function returns when nothing raises. *)
Txn(steps, raises, result) == [steps |-> steps, raises |-> raises, result |-> result]

Working(committed, txn, n) == IF n = 0 THEN committed ELSE txn.steps[n]

Completes(txn, n) == n = Len(txn.steps) /\ ~txn.raises

(* The store after a call whose first n statements ran: all of them and the
   commit, or a failure after the n-th and the close. *)
Finish(committed, txn, n) ==
    IF Completes(txn, n)
    THEN Commit(committed, Working(committed, txn, n))
    ELSE Close(committed, Working(committed, txn, n))

Exception == [status |-> "raised"]

Outcome(txn, n) == IF Completes(txn, n) THEN txn.result ELSE Exception

----------------------------------------------------------------------------
(* json.dumps / json.loads of a result: the text is the list of its
   key/value members, read back into a dict. *)

JsonDumps(d) == {<<k, d[k]>> : k \in DOMAIN d}

JsonLoads(text) ==
    [k \in {m[1] : m \in text} |-> (CHOOSE m \in text : m[1] = k)[2]]

(* A function that returns a dict or None: None is the dict of no members
   here, and both are false in a condition. *)
NoResult == [k \in {} |-> None]

Truthy(d) == DOMAIN d # {}

----------------------------------------------------------------------------
(* ingestion.py: the idempotency gate. *)

(* A gate that looks the key up in the rows of every tenant. *)
check_idempotency_anytenant(s, tenant_id, key) ==
    LET rows == {r \in s.idem : r.key = key}
    IN  IF rows # {} THEN JsonLoads((CHOOSE r \in rows : TRUE).result_json)
        ELSE NoResult

check_idempotency(s, tenant_id, key) ==
    LET rows == {r \in s.idem : r.tenant_id = tenant_id /\ r.key = key}
    IN  IF rows # {} THEN JsonLoads((CHOOSE r \in rows : TRUE).result_json)
        ELSE NoResult

(* INSERT INTO idempotency: the primary key (tenant_id, key) rejects a second row. *)
(* An idempotency table without its primary key. *)
IdempotencyConflict_nokey(s, tenant_id, key) == FALSE

IdempotencyConflict(s, tenant_id, key) ==
    \E r \in s.idem : r.tenant_id = tenant_id /\ r.key = key

(* A record_idempotency that writes nothing. *)
record_idempotency_skipped(s, tenant_id, key, result) == s

record_idempotency(s, tenant_id, key, result) ==
    [s EXCEPT !.idem = @ \cup {[tenant_id |-> tenant_id, key |-> key,
                                 result_json |-> JsonDumps(result)]}]

----------------------------------------------------------------------------
(* Rows. *)

TTL_HOURS == 24

L0Row(id, scope, t) ==
    [id |-> id, tenant_id |-> scope.tenant_id, workspace_id |-> scope.workspace_id,
     expires_at |-> t + TTL_HOURS]

L1Row(id, scope, type, title, claims, confidence, evidence_count, t) ==
    [id |-> id, tenant_id |-> scope.tenant_id, workspace_id |-> scope.workspace_id,
     repo_id |-> scope.repo_id, module |-> scope.module, user_id |-> scope.user_id,
     session_id |-> scope.session_id, task_id |-> scope.task_id,
     type |-> type, status |-> "active", title |-> title, claims |-> claims,
     confidence |-> confidence, evidence_count |-> evidence_count,
     confirmation_count |-> 1, created_at |-> t]

FtsRow(id, title) == [id |-> id, title |-> title]

BagInsert(B, row) == B (+) SetToBag({row})

(* A DELETE that leaves the FTS table alone. *)
BagDeleteIds_none(B, ids) == B

BagDeleteIds(B, ids) == [r \in {x \in DOMAIN B : x.id \notin ids} |-> B[r]]

(* UPDATE ... SET title=? WHERE id=?: every row of that id gets the title. *)
BagUpdateTitle(B, id, title) ==
    LET f(r) == IF r.id = id THEN [r EXCEPT !.title = title] ELSE r
        image == {f(r) : r \in DOMAIN B}
    IN  [y \in image |->
            BagCardinality([r \in {x \in DOMAIN B : f(x) = y} |-> B[r]])]

----------------------------------------------------------------------------
(* ingestion.py: upsert_event. *)

(* The statements of upsert_event after the gate has found no record. *)
upsert_event_writes(s, scope, payload, key, distill, l0_id, l1_id, t) ==
    LET s1 == [s EXCEPT !.l0 = @ \cup {L0Row(l0_id, scope, t)}]
        title == ObservationTitle(payload.content)
        s2 == [s1 EXCEPT !.l1 = @ \cup
                  {L1Row(l1_id, scope, "Observation", title, <<>>, 10, 0, t)}]
        s3 == [s2 EXCEPT !.l1_fts = BagInsert(@, FtsRow(l1_id, title))]
        r0 == [id |-> l0_id, layer |-> "L0"]
        result == IF distill THEN r0 @@ ("l1_id" :> l1_id) ELSE r0
        sN == IF distill THEN s3 ELSE s1
        conflict == IdempotencyConflict(sN, scope.tenant_id, key)
        recorded == record_idempotency(sN, scope.tenant_id, key, result)
        writes == IF distill THEN <<s1, s2, s3>> ELSE <<s1>>
    IN  IF conflict THEN Txn(writes, TRUE, result)
        ELSE Txn(Append(writes, recorded), FALSE, result)

upsert_event(s, scope, payload, key, distill, l0_id, l1_id, t) ==
    LET existing == check_idempotency(s, scope.tenant_id, key)
    IN  IF Truthy(existing) THEN Txn(<<>>, FALSE, existing)
        ELSE upsert_event_writes(s, scope, payload, key, distill, l0_id, l1_id, t)

----------------------------------------------------------------------------
(* ingestion.py: commit_episode. *)

(* A lookup that matches active episodes only. *)
EpisodeCandidates_active(s, scope) ==
    IF scope.session_id # None
    THEN {r.id : r \in {x \in s.l1 : /\ x.tenant_id = scope.tenant_id
                                     /\ x.workspace_id = scope.workspace_id
                                     /\ x.session_id = scope.session_id
                                     /\ x.type = "EpisodeSummary"
                                     /\ x.status = "active"}}
    ELSE IF scope.task_id # None
    THEN {r.id : r \in {x \in s.l1 : /\ x.tenant_id = scope.tenant_id
                                     /\ x.workspace_id = scope.workspace_id
                                     /\ x.task_id = scope.task_id
                                     /\ x.type = "EpisodeSummary"
                                     /\ x.status = "active"}}
    ELSE {}

(* The rows the lookup SELECT matches; fetchone() takes one of them. *)
EpisodeCandidates(s, scope) ==
    IF scope.session_id # None
    THEN {r.id : r \in {x \in s.l1 : /\ x.tenant_id = scope.tenant_id
                                     /\ x.workspace_id = scope.workspace_id
                                     /\ x.session_id = scope.session_id
                                     /\ x.type = "EpisodeSummary"}}
    ELSE IF scope.task_id # None
    THEN {r.id : r \in {x \in s.l1 : /\ x.tenant_id = scope.tenant_id
                                     /\ x.workspace_id = scope.workspace_id
                                     /\ x.task_id = scope.task_id
                                     /\ x.type = "EpisodeSummary"}}
    ELSE {}

(* What fetchone() may return: a matching id, or NoId when nothing matches. *)
EpisodeTargets(s, scope) ==
    IF EpisodeCandidates(s, scope) = {} THEN {NoId} ELSE EpisodeCandidates(s, scope)

(* An update that does not count the confirmation. *)
EpisodeUpdate_nobump(r, payload) ==
    [r EXCEPT !.title = payload.title, !.claims = payload.claims]

EpisodeUpdate(r, payload) ==
    [r EXCEPT !.title = payload.title, !.claims = payload.claims,
              !.confirmation_count = @ + 1]

(* The statements of commit_episode after the gate has found no record and
   the lookup has returned target_id. *)
commit_episode_writes(s, scope, payload, key, target_id, new_id, t) ==
    LET \* Update
        u1 == [s EXCEPT !.l1 = {IF r.id = target_id THEN EpisodeUpdate(r, payload)
                                ELSE r : r \in @}]
        u2 == [u1 EXCEPT !.l1_fts = BagUpdateTitle(@, target_id, payload.title)]
        \* Create
        c1 == [s EXCEPT !.l1 = @ \cup
                  {L1Row(new_id, scope, "EpisodeSummary", payload.title,
                         payload.claims, 10, 0, t)}]
        c2 == [c1 EXCEPT !.l1_fts = BagInsert(@, FtsRow(new_id, payload.title))]
        hit == target_id # NoId
        result == IF hit THEN [id |-> target_id, action |-> "updated"]
                  ELSE [id |-> new_id, action |-> "created"]
        writes == IF hit THEN <<u1, u2>> ELSE <<c1, c2>>
        conflict == IdempotencyConflict(writes[2], scope.tenant_id, key)
        recorded == record_idempotency(writes[2], scope.tenant_id, key, result)
    IN  IF conflict THEN Txn(writes, TRUE, result)
        ELSE Txn(Append(writes, recorded), FALSE, result)

commit_episode(s, scope, payload, key, target_id, new_id, t) ==
    LET existing == check_idempotency(s, scope.tenant_id, key)
    IN  IF Truthy(existing) THEN Txn(<<>>, FALSE, existing)
        ELSE commit_episode_writes(s, scope, payload, key, target_id, new_id, t)

----------------------------------------------------------------------------
(* ingestion.py: promote_to_l2. *)

ValidationError(message) ==
    [status |-> "error", error_code |-> "PROMOTION_VALIDATION_FAILED",
     message |-> message]

L2Row(id, scope, draft, t) ==
    [id |-> id, tenant_id |-> scope.tenant_id, workspace_id |-> scope.workspace_id,
     repo_id |-> scope.repo_id, module |-> scope.module,
     type |-> draft.type, status |-> "active", version |-> 1,
     supersedes_id |-> NoId, title |-> draft.title, claims |-> draft.claims,
     confidence |-> 10, evidence_count |-> 1, confirmation_count |-> 1,
     created_at |-> t]

(* The artifact ref stored as it came in. *)
ArtifactRow_asgiven(memory_id, artifact) ==
    [memory_id |-> artifact.memory_id, layer |-> artifact.layer, kind |-> artifact.kind,
     locator |-> artifact.locator, snippet_policy |-> artifact.snippet_policy]

ArtifactRow(memory_id, artifact) ==
    [memory_id |-> memory_id, layer |-> "L2", kind |-> artifact.kind,
     locator |-> artifact.locator, snippet_policy |-> artifact.snippet_policy]

(* The primary key of memory_artifacts is (memory_id, kind, locator). *)
ArtifactConflict(s, row) ==
    \E a \in s.artifacts : /\ a.memory_id = row.memory_id /\ a.kind = row.kind
                           /\ a.locator = row.locator

(* A validator that lets every draft through. *)
PromotionValidate_lax(draft) == NoResult

(* The validator of promote_to_l2, before any connection is opened: the
   error result, or NoResult when the draft passes. *)
PromotionValidate(draft) ==
    IF draft.type \notin L2Types THEN ValidationError("Invalid type")
    ELSE IF draft.claims = <<>> THEN ValidationError("No claims provided")
    ELSE NoResult

promote_to_l2(s, scope, draft, artifact, key, l2_id, t) ==
    LET invalid == PromotionValidate(draft)
        existing == check_idempotency(s, scope.tenant_id, key)
        s1 == [s EXCEPT !.l2 = @ \cup {L2Row(l2_id, scope, draft, t)}]
        s2 == [s1 EXCEPT !.l2_fts = BagInsert(@, FtsRow(l2_id, draft.title))]
        art == ArtifactRow(l2_id, artifact)
        s3 == [s2 EXCEPT !.artifacts = @ \cup {art}]
        result == [id |-> l2_id, status |-> "ok"]
        recorded == record_idempotency(s3, scope.tenant_id, key, result)
    IN  IF invalid # NoResult THEN Txn(<<>>, FALSE, invalid)
        ELSE IF Truthy(existing) THEN Txn(<<>>, FALSE, existing)
        ELSE IF ArtifactConflict(s2, art) THEN Txn(<<s1, s2>>, TRUE, result)
        ELSE IF IdempotencyConflict(s3, scope.tenant_id, key)
             THEN Txn(<<s1, s2, s3>>, TRUE, result)
        ELSE Txn(<<s1, s2, s3, recorded>>, FALSE, result)

(* graph_accelerator.upsert_node is called after the second statement. *)
PromoteProjectsAfter == 2

----------------------------------------------------------------------------
(* ingestion.py: link_memories. *)

NotFound(message) ==
    [status |-> "error", message |-> message, error_code |-> "NOT_FOUND"]

EdgeRow(scope, from_id, rel, to_id, weight, t) ==
    [tenant_id |-> scope.tenant_id, workspace_id |-> scope.workspace_id,
     from_id |-> from_id, rel |-> rel, to_id |-> to_id, weight |-> weight,
     created_at |-> t]

SameEdgeKey(e, f) ==
    /\ e.tenant_id = f.tenant_id /\ e.workspace_id = f.workspace_id
    /\ e.from_id = f.from_id /\ e.rel = f.rel /\ e.to_id = f.to_id

(* A plain INSERT into an edge table that has no primary key. *)
InsertOrReplaceEdge_append(edges, row) == edges \cup {row}

(* INSERT OR REPLACE on the primary key of memory_l2_edges. *)
InsertOrReplaceEdge(edges, row) ==
    {e \in edges : ~SameEdgeKey(e, row)} \cup {row}

(* An existence check that finds every id. *)
L2Exists_any(s, id) == TRUE

L2Exists(s, id) == \E r \in s.l2 : r.id = id

(* A link_memories that records its NOT_FOUND results under the key. *)
link_memories_recording(s, scope, from_id, to_id, rel, weight, key, t) ==
    LET existing == IF key # None THEN check_idempotency(s, scope.tenant_id, key)
                    ELSE NoResult
        s1 == [s EXCEPT !.edges =
                  InsertOrReplaceEdge(@, EdgeRow(scope, from_id, rel, to_id, weight, t))]
        result == [status |-> "ok", from |-> from_id, to |-> to_id, rel |-> rel]
        recorded == record_idempotency(s1, scope.tenant_id, key, result)
        Missing(message) ==
            IF key = None THEN Txn(<<>>, FALSE, NotFound(message))
            ELSE Txn(<<record_idempotency(s, scope.tenant_id, key, NotFound(message))>>,
                     FALSE, NotFound(message))
    IN  IF Truthy(existing) THEN Txn(<<>>, FALSE, existing)
        ELSE IF ~L2Exists(s, from_id) THEN Missing("Source node")
        ELSE IF ~L2Exists(s, to_id) THEN Missing("Target node")
        ELSE IF key = None THEN Txn(<<s1>>, FALSE, result)
        ELSE IF IdempotencyConflict(s1, scope.tenant_id, key) THEN Txn(<<s1>>, TRUE, result)
        ELSE Txn(<<s1, recorded>>, FALSE, result)

link_memories(s, scope, from_id, to_id, rel, weight, key, t) ==
    LET existing == IF key # None THEN check_idempotency(s, scope.tenant_id, key)
                    ELSE NoResult
        s1 == [s EXCEPT !.edges =
                  InsertOrReplaceEdge(@, EdgeRow(scope, from_id, rel, to_id, weight, t))]
        result == [status |-> "ok", from |-> from_id, to |-> to_id, rel |-> rel]
        recorded == record_idempotency(s1, scope.tenant_id, key, result)
    IN  IF Truthy(existing) THEN Txn(<<>>, FALSE, existing)
        ELSE IF ~L2Exists(s, from_id) THEN Txn(<<>>, FALSE, NotFound("Source node"))
        ELSE IF ~L2Exists(s, to_id) THEN Txn(<<>>, FALSE, NotFound("Target node"))
        ELSE IF key = None THEN Txn(<<s1>>, FALSE, result)
        ELSE IF IdempotencyConflict(s1, scope.tenant_id, key) THEN Txn(<<s1>>, TRUE, result)
        ELSE Txn(<<s1, recorded>>, FALSE, result)

(* graph_accelerator.upsert_edge is called after the first statement. *)
LinkProjectsAfter == 1

----------------------------------------------------------------------------
(* graph.py: GraphAccelerator.  mode is what the process finds: the client
   absent or the ping failed ("disabled"), the service answering ("enabled"),
   or the query raising, which every method catches ("error"). *)

(* "".join(x for x in rel if x.isalnum() or x == "_"). *)
SafeRel(rel) == SelectSeq(rel, IsAlnumOrUnderscore)

GraphUpsertNode(nodes, mode, id) ==
    IF mode = "enabled" THEN nodes \cup {id} ELSE nodes

(* MATCH both vertices, MERGE the relationship: nothing when one is absent. *)
GraphUpsertEdge(nodes, edges, mode, from_id, to_id, rel) ==
    IF mode = "enabled" /\ from_id \in nodes /\ to_id \in nodes
    THEN edges \cup {[from |-> from_id, rel |-> SafeRel(rel), to |-> to_id]}
    ELSE edges

(* MATCH p=(n {id})-[*1..hops]->(m): the paths from the seed of 1..hops
   relationships, none of them taken twice. *)
RECURSIVE GraphPaths(_, _, _)
GraphPaths(edges, seed_id, hops) ==
    IF hops = 0 THEN {<<>>}
    ELSE LET shorter == GraphPaths(edges, seed_id, hops - 1)
             end(p) == IF p = <<>> THEN seed_id ELSE p[Len(p)].to
             used(p) == {p[i] : i \in DOMAIN p}
         IN  shorter \cup
             {Append(p, e) : <<p, e>> \in
                 {<<q, f>> \in shorter \X edges :
                     /\ Len(q) = hops - 1 /\ f.from = end(q) /\ f \notin used(q)}}

(* GraphAccelerator.expand: NoResult for None, else the vertices on the paths
   (the seed among them) and their relationships. *)
(* An expand whose failed query comes back as an empty graph, not as None. *)
GraphExpand_emptyonerror(nodes, edges, mode, seed_id, hops) ==
    IF mode = "disabled" THEN NoResult
    ELSE IF mode = "error" THEN [nodes |-> {}, edges |-> {}]
    ELSE LET paths == IF seed_id \in nodes
                      THEN GraphPaths(edges, seed_id, hops) \ {<<>>} ELSE {}
             rels == UNION {{p[i] : i \in DOMAIN p} : p \in paths}
         IN  [nodes |-> IF paths = {} THEN {}
                        ELSE {seed_id} \cup {e.to : e \in rels},
              edges |-> rels]

(* What upsert_node and upsert_edge return: True after their query ran, False
   when the accelerator is disabled or the query raised. *)
GraphUpsertReturns(mode) == mode = "enabled"

GraphExpand(nodes, edges, mode, seed_id, hops) ==
    IF mode # "enabled" THEN NoResult
    ELSE LET paths == IF seed_id \in nodes
                      THEN GraphPaths(edges, seed_id, hops) \ {<<>>} ELSE {}
             rels == UNION {{p[i] : i \in DOMAIN p} : p \in paths}
         IN  [nodes |-> IF paths = {} THEN {}
                        ELSE {seed_id} \cup {e.to : e \in rels},
              edges |-> rels]

----------------------------------------------------------------------------
(* retrieval.py: package_results and expand_memory. *)

Views == {"index", "detail", "evidence"}

(* len(json.dumps(item)) // 4 of an item: of the index fields, of the detail
   fields added to them, and of each artifact entry of the evidence view. *)
IndexCost == 23
DetailCost == 27
ArtifactCost == 20

ItemCost(s, row, view) ==
    IF view = "index" THEN IndexCost
    ELSE IF view = "detail" THEN IndexCost + DetailCost
    ELSE IndexCost + DetailCost
         + ArtifactCost * Cardinality({a \in s.artifacts : a.memory_id = row.id})

(* The files of the working directory that exist and can be read. *)
ReadableFiles == {"a.txt"}

(* f.read(1024) of a readable file. *)
FileContent(locator) == "content of a.txt"

(* The entry of an artifact in the evidence view: with the policy "allowed"
   the snippet starts as the placeholder and becomes the content when the
   kind is "file" and the locator is a file that can be read. *)
ArtifactEntry(a) ==
    LET entry == [kind |-> a.kind, locator |-> a.locator,
                  snippet_policy |-> a.snippet_policy]
        snippet == IF a.kind = "file" /\ a.locator \in ReadableFiles
                   THEN FileContent(a.locator)
                   ELSE "[Content placeholder]"
    IN  IF a.snippet_policy = "allowed" THEN entry @@ ("snippet" :> snippet)
        ELSE entry

(* An entry of search_memory is a (score, row) pair, here the row with its
   score; any other entry has score 0.0. *)
Item(s, row, view) ==
    LET score == IF "score" \in DOMAIN row THEN row.score ELSE 0
        index == [id |-> row.id, type |-> row.type, title |-> row.title, score |-> score]
        detail == index @@ [status |-> row.status, confidence |-> row.confidence,
                            claims |-> row.claims]
    IN  IF view = "index" THEN index
        ELSE IF view = "detail" THEN detail
        ELSE detail @@ ("artifacts" :>
                 {ArtifactEntry(a) : a \in {x \in s.artifacts : x.memory_id = row.id}})

(* A packaging that passes over an item that does not fit and goes on to
   the later ones. *)
RECURSIVE PackageLoop_skipping(_, _, _, _, _, _)
PackageLoop_skipping(s, rows, view, budget, used_tokens, items) ==
    IF rows = <<>> THEN [items |-> items, truncated |-> FALSE, used |-> used_tokens]
    ELSE LET item_cost == ItemCost(s, Head(rows), view)
             rest == PackageLoop_skipping(s, Tail(rows), view, budget, used_tokens, items)
         IN  IF used_tokens + item_cost > budget
             THEN [rest EXCEPT !.truncated = TRUE]
             ELSE PackageLoop_skipping(s, Tail(rows), view, budget,
                                       used_tokens + item_cost,
                                       Append(items, Item(s, Head(rows), view)))

RECURSIVE PackageLoop(_, _, _, _, _, _)
PackageLoop(s, rows, view, budget, used_tokens, items) ==
    IF rows = <<>> THEN [items |-> items, truncated |-> FALSE, used |-> used_tokens]
    ELSE LET item_cost == ItemCost(s, Head(rows), view)
         IN  IF used_tokens + item_cost > budget
             THEN [items |-> items, truncated |-> TRUE, used |-> used_tokens]
             ELSE PackageLoop(s, Tail(rows), view, budget, used_tokens + item_cost,
                              Append(items, Item(s, Head(rows), view)))

package_results(s, rows, view, budget) ==
    LET r == PackageLoop(s, rows, view, budget, 0, <<>>)
    IN  [status |-> "ok", view |-> view, items |-> r.items,
         truncation |-> [truncated |-> r.truncated,
                         reason |-> IF r.truncated THEN "TOKEN_BUDGET" ELSE None,
                         remaining_budget |-> budget - r.used],
         token_estimate_used |-> r.used]

(* The orders in which a SELECT without ORDER BY may return a set of rows. *)
Orders(S) ==
    {q \in [1..Cardinality(S) -> S] : \A i, j \in DOMAIN q : i # j => q[i] # q[j]}

(* retrieval.py: search_memory. *)

(* filters is a dict: its members in the order they were given;
   `if filters.get(k)`: the key is there and its value is not empty. *)
FilterHas(filters, k) ==
    \E i \in DOMAIN filters : filters[i][1] = k /\ filters[i][2] # ""

FilterGet(filters, k) ==
    filters[CHOOSE i \in DOMAIN filters : filters[i][1] = k][2]

NoFilters == <<>>
FilterType == << <<"type", "Observation">> >>
FilterStatus == << <<"status", "active">> >>
FilterTypeStatus == << <<"type", "Decision">>, <<"status", "deprecated">> >>
FilterEmptyType == << <<"type", "">> >>

(* The FTS5 tokens of the titles the inputs produce. *)
TitleTokens(title) ==
    IF title = "Observation: leak" THEN {"observation", "leak"}
    ELSE IF title = "Observation: crash" THEN {"observation", "crash"}
    ELSE IF title = "Ep1" THEN {"ep1"}
    ELSE IF title = "Ep1 Updated" THEN {"ep1", "updated"}
    ELSE IF title = "Fact" THEN {"fact"}
    ELSE IF title = "Leak" THEN {"leak"}
    ELSE IF title \in {"Episode: day 0 - General", "Episode: day 1 - General"}
    THEN {"episode", "general"}
    ELSE {"episode", "core"}

(* A where_sql that holds the tenant and the filters only. *)
SearchWhere_tenantonly(m, scope, filters) ==
    /\ m.tenant_id = scope.tenant_id
    /\ FilterHas(filters, "type") => m.type = FilterGet(filters, "type")
    /\ FilterHas(filters, "status") => m.status = FilterGet(filters, "status")

(* A where_sql that keeps to active rows when no status is asked for. *)
SearchWhere_activeonly(m, scope, filters) ==
    /\ m.tenant_id = scope.tenant_id
    /\ m.workspace_id = scope.workspace_id
    /\ scope.repo_id # None => (m.repo_id = scope.repo_id \/ m.repo_id = None)
    /\ FilterHas(filters, "type") => m.type = FilterGet(filters, "type")
    /\ IF FilterHas(filters, "status") THEN m.status = FilterGet(filters, "status")
       ELSE m.status = "active"

(* where_sql of search_memory on a row m of memory_l1 or memory_l2_nodes. *)
SearchWhere(m, scope, filters) ==
    /\ m.tenant_id = scope.tenant_id
    /\ m.workspace_id = scope.workspace_id
    /\ scope.repo_id # None => (m.repo_id = scope.repo_id \/ m.repo_id = None)
    /\ FilterHas(filters, "type") => m.type = FilterGet(filters, "type")
    /\ FilterHas(filters, "status") => m.status = FilterGet(filters, "status")

(* m JOIN fts ON m.id = fts.id WHERE where_sql AND fts MATCH query: one hit
   (row, copy) for every matching FTS row of a row that passes where_sql. *)
SearchJoin(rows, fts, scope, query, filters) ==
    UNION {{<<m, f, k>> : k \in 1..CopiesIn(f, fts)} :
              <<m, f>> \in {x \in rows \X BagToSet(fts) :
                               /\ x[1].id = x[2].id
                               /\ SearchWhere(x[1], scope, filters)
                               /\ query \in TitleTokens(x[2].title)}}

SearchHits(s, scope, query, filters) ==
    SearchJoin(s.l1, s.l1_fts, scope, query, filters)
        \cup SearchJoin(s.l2, s.l2_fts, scope, query, filters)

Min(a, b) == IF a < b THEN a ELSE b

(* The lists scored_items[:top_k] can be: LIMIT top_k * 2 keeps the hits of
   best bm25 rank, the sort by score (which adds the rank to the heuristic
   terms) orders them and the slice keeps top_k; the rank is a function of
   the whole FTS table, so every choice and order of top_k of the hits is
   taken to be possible. *)
TopItems(hits, top_k) ==
    LET n == Min(top_k, Cardinality(hits))
    IN  {q \in [1..n -> hits] : \A i, j \in 1..n : i # j => q[i] # q[j]}

(* The (score, row) entries of a ranked list: the scores are known by their
   order only, highest first. *)
ScoredRows(top_items) ==
    [i \in DOMAIN top_items |->
        top_items[i][1] @@ ("score" :> Len(top_items) + 1 - i)]

search_memory(s, top_items, view, budget) ==
    package_results(s, ScoredRows(top_items), view, budget)

ScopeEdges(s, scope) ==
    {e \in s.edges : e.tenant_id = scope.tenant_id /\ e.workspace_id = scope.workspace_id}

Triple(from_id, rel, to_id) == [from |-> from_id, rel |-> rel, to |-> to_id]

(* The fallback on memory_l2_edges: hop 1, and hop 2 when hops > 1. *)
FallbackExpand(s, scope, seed_id, hops) ==
    LET hop1 == {e \in ScopeEdges(s, scope) : e.from_id = seed_id}
        ids1 == {e.to_id : e \in hop1}
        paths1 == {Triple(seed_id, e.rel, e.to_id) : e \in hop1}
        hop2 == IF hops > 1 /\ ids1 # {}
                THEN {e \in ScopeEdges(s, scope) : e.from_id \in ids1 /\ e.to_id # seed_id}
                ELSE {}
    IN  [node_ids |-> ids1 \cup {e.to_id : e \in hop2},
         paths |-> paths1 \cup {Triple(e.from_id, e.rel, e.to_id) : e \in hop2}]

(* node_ids and path_info of expand_memory before the details are fetched. *)
ExpandCollect(s, nodes, edges, mode, scope, seed_id, hops) ==
    LET accelerated_result == GraphExpand(nodes, edges, mode, seed_id, hops)
    IN  IF accelerated_result # NoResult
        THEN [node_ids |-> accelerated_result.nodes \ {seed_id},
              paths |-> accelerated_result.edges]
        ELSE FallbackExpand(s, scope, seed_id, hops)

(* expand_memory, the rows of the detail SELECT coming back in order `rows`. *)
expand_memory(s, collected, rows, view, budget) ==
    IF collected.node_ids = {}
    THEN [status |-> "ok", view |-> view, items |-> <<>>,
          truncation |-> [truncated |-> FALSE, remaining_budget |-> budget],
          paths |-> collected.paths]
    ELSE package_results(s, rows, view, budget) @@ ("paths" :> collected.paths)

----------------------------------------------------------------------------
(* governance.py: forget_memory. *)

(* A selector is a dict: its members in the order they were given.
   `if selector.get(k)`: the key is there and its value is not empty.  A time
   is an ISO text here written as a number of hours, so it is never empty. *)
SelectorHas(selector, k) ==
    \E i \in DOMAIN selector :
        /\ selector[i][1] = k
        /\ k = "user_id" => selector[i][2] # ""

SelectorGet(selector, k) ==
    selector[CHOOSE i \in DOMAIN selector : selector[i][1] = k][2]

(* sha256 of json.dumps(selector, sort_keys=True): the members without their
   order; distinct texts have distinct digests. *)
compute_selector_hash(selector) == {selector[i] : i \in DOMAIN selector}

SelectorAll == <<>>
SelectorUser == << <<"user_id", "u1">> >>
SelectorSince == << <<"start_time", 0>> >>
SelectorUserUntil == << <<"user_id", "u1">>, <<"end_time", 0>> >>
SelectorType == << <<"type", "Observation">> >>
SelectorUntilUser == << <<"end_time", 0>>, <<"user_id", "u1">> >>
SelectorFrom == << <<"start_time", 1>> >>
SelectorNoUser == << <<"user_id", "">> >>
SelectorTags == << <<"tags", "x">> >>

(* A where_sql whose time bounds are left out when user_id is given. *)
WhereMatch_usersonly(r, scope, selector, has_user_column) ==
    /\ r.tenant_id = scope.tenant_id
    /\ r.workspace_id = scope.workspace_id
    /\ IF SelectorHas(selector, "user_id")
       THEN has_user_column /\ r.user_id = SelectorGet(selector, "user_id")
       ELSE /\ SelectorHas(selector, "start_time") =>
                   r.created_at >= SelectorGet(selector, "start_time")
            /\ SelectorHas(selector, "end_time") =>
                   r.created_at <= SelectorGet(selector, "end_time")

(* A where_sql that also compares the type when the selector has one. *)
WhereMatch_withtype(r, scope, selector, has_user_column) ==
    /\ r.tenant_id = scope.tenant_id
    /\ r.workspace_id = scope.workspace_id
    /\ SelectorHas(selector, "user_id") =>
           (has_user_column /\ r.user_id = SelectorGet(selector, "user_id"))
    /\ SelectorHas(selector, "start_time") =>
           r.created_at >= SelectorGet(selector, "start_time")
    /\ SelectorHas(selector, "end_time") =>
           r.created_at <= SelectorGet(selector, "end_time")
    /\ SelectorHas(selector, "type") => r.type = SelectorGet(selector, "type")

(* where_sql on a row of memory_l1 or memory_l2_nodes. *)
WhereMatch(r, scope, selector, has_user_column) ==
    /\ r.tenant_id = scope.tenant_id
    /\ r.workspace_id = scope.workspace_id
    /\ SelectorHas(selector, "user_id") =>
           (has_user_column /\ r.user_id = SelectorGet(selector, "user_id"))
    /\ SelectorHas(selector, "start_time") =>
           r.created_at >= SelectorGet(selector, "start_time")
    /\ SelectorHas(selector, "end_time") =>
           r.created_at <= SelectorGet(selector, "end_time")

(* An L0 delete that runs whatever the selector holds. *)
CanFilterL0_always(selector) == TRUE

CanFilterL0(selector) ==
    /\ ~SelectorHas(selector, "user_id")
    /\ ~SelectorHas(selector, "start_time")
    /\ ~SelectorHas(selector, "end_time")

TombstoneRow(scope, selector_hash, t) ==
    [tenant_id |-> scope.tenant_id, workspace_id |-> scope.workspace_id,
     selector_hash |-> selector_hash, created_at |-> t]

(* An insert into a tombstone table that has no primary key. *)
InsertTombstone_nokey(rows, row) == rows \cup {row}

(* INSERT INTO tombstones with the IntegrityError of its primary key
   (tenant_id, workspace_id, selector_hash) passed over. *)
InsertTombstone(rows, row) ==
    IF \E x \in rows : /\ x.tenant_id = row.tenant_id
                       /\ x.workspace_id = row.workspace_id
                       /\ x.selector_hash = row.selector_hash
    THEN rows ELSE rows \cup {row}

forget_memory(s, scope, selector, t) ==
    LET selector_hash == compute_selector_hash(selector)
        s1 == [s EXCEPT !.tombstones =
                  InsertTombstone(@, TombstoneRow(scope, selector_hash, t))]
        l0_rows == {r \in s1.l0 : /\ r.tenant_id = scope.tenant_id
                                  /\ r.workspace_id = scope.workspace_id}
        s2 == [s1 EXCEPT !.l0 = @ \ l0_rows]
        w2 == IF CanFilterL0(selector) THEN <<s1, s2>> ELSE <<s1>>
        count_l0 == IF CanFilterL0(selector) THEN Cardinality(l0_rows) ELSE 0
        a2 == w2[Len(w2)]
        l1_ids == {r.id : r \in {x \in a2.l1 : WhereMatch(x, scope, selector, TRUE)}}
        s3 == [a2 EXCEPT !.l1 = {r \in @ : r.id \notin l1_ids}]
        s4 == [s3 EXCEPT !.l1_fts = BagDeleteIds(@, l1_ids)]
        w4 == IF l1_ids # {} THEN w2 \o <<s3, s4>> ELSE w2
        a4 == w4[Len(w4)]
        l2_ids == IF ~SelectorHas(selector, "user_id")
                  THEN {r.id : r \in {x \in a4.l2 : WhereMatch(x, scope, selector, FALSE)}}
                  ELSE {}
        s5 == [a4 EXCEPT !.l2 = {IF r.id \in l2_ids THEN [r EXCEPT !.status = "tombstoned"]
                                 ELSE r : r \in @}]
        w5 == IF l2_ids # {} THEN Append(w4, s5) ELSE w4
    IN  Txn(w5, FALSE,
            [status |-> "ok", tombstone_hash |-> selector_hash,
             deleted_l0 |-> count_l0, deleted_l1 |-> Cardinality(l1_ids),
             tombstoned_l2 |-> Cardinality(l2_ids)])

----------------------------------------------------------------------------
(* governance.py: deprecate_memory. *)

(* An UPDATE without its WHERE clause. *)
SetStatus_all(rows, id, status) == {[r EXCEPT !.status = status] : r \in rows}

(* An UPDATE of the status that starts a new version of the row. *)
SetStatus_newversion(rows, id, status) ==
    {IF r.id = id /\ "version" \in DOMAIN r
     THEN [r EXCEPT !.status = status, !.version = @ + 1]
     ELSE IF r.id = id THEN [r EXCEPT !.status = status] ELSE r : r \in rows}

SetStatus(rows, id, status) ==
    {IF r.id = id THEN [r EXCEPT !.status = status] ELSE r : r \in rows}

deprecate_memory(s, scope, memory_id, superseded_by) ==
    LET in_l1 == \E r \in s.l1 : r.id = memory_id /\ r.tenant_id = scope.tenant_id
        in_l2 == \E r \in s.l2 : r.id = memory_id /\ r.tenant_id = scope.tenant_id
        a1 == [s EXCEPT !.l1 = SetStatus(@, memory_id, "deprecated")]
        b1 == [s EXCEPT !.l2 = SetStatus(@, memory_id, "deprecated")]
        b2 == [b1 EXCEPT !.l2 = {IF r.id = superseded_by
                                 THEN [r EXCEPT !.supersedes_id = memory_id]
                                 ELSE r : r \in @}]
    IN  IF in_l1
        THEN Txn(<<a1>>, FALSE, [status |-> "ok", id |-> memory_id, layer |-> "L1",
                                 action |-> "deprecated"])
        ELSE IF in_l2
        THEN Txn(IF superseded_by # NoId THEN <<b1, b2>> ELSE <<b1>>, FALSE,
                 [status |-> "ok", id |-> memory_id, layer |-> "L2",
                  action |-> "deprecated"])
        ELSE Txn(<<>>, FALSE, NotFound("Memory not found"))

----------------------------------------------------------------------------
(* governance.py: gc_sweep and gc_compact. *)

(* A sweep that also takes the rows expiring at the very time of the call. *)
gc_sweep_inclusive(s, t) ==
    LET expired == {r \in s.l0 : r.expires_at <= t}
    IN  Txn(<<[s EXCEPT !.l0 = @ \ expired]>>, FALSE,
            [status |-> "ok", deleted_l0 |-> Cardinality(expired)])

gc_sweep(s, t) ==
    LET expired == {r \in s.l0 : r.expires_at < t}
    IN  Txn(<<[s EXCEPT !.l0 = @ \ expired]>>, FALSE,
            [status |-> "ok", deleted_l0 |-> Cardinality(expired)])

HoursPerDay == 24

(* A grouping that takes every created_at for the same day. *)
Day_same(t) == 0

(* SUBSTR(created_at, 1, 10) *)
Day(t) == t \div HoursPerDay

NoScope == [k \in {} |-> None]

(* The rows of the GROUP BY: (day, repo_id, module) of the active
   Observations of the tenant and workspace. *)
CompactGroups(s, scope) ==
    {<<Day(r.created_at), r.repo_id, r.module>> :
        r \in {x \in s.l1 : /\ x.tenant_id = scope.tenant_id
                            /\ x.workspace_id = scope.workspace_id
                            /\ x.type = "Observation" /\ x.status = "active"}}

GroupIds(s, scope, g) ==
    {r.id : r \in {x \in s.l1 : /\ x.tenant_id = scope.tenant_id
                                /\ x.workspace_id = scope.workspace_id
                                /\ x.type = "Observation" /\ x.status = "active"
                                /\ <<Day(x.created_at), x.repo_id, x.module>> = g}}

(* f"Episode: {day} - {module or 'General'}", over the days and modules of
   the inputs. *)
EpisodeTitle(day, module) ==
    IF day = 0
    THEN IF module = None THEN "Episode: day 0 - General" ELSE "Episode: day 0 - core"
    ELSE IF module = None THEN "Episode: day 1 - General" ELSE "Episode: day 1 - core"

(* A summary row whose confidence is written as a percentage. *)
CompactedRow_percent(id, scope, g, n, t) ==
    [id |-> id, tenant_id |-> scope.tenant_id, workspace_id |-> scope.workspace_id,
     repo_id |-> g[2], module |-> g[3], user_id |-> scope.user_id,
     session_id |-> None, task_id |-> None,
     type |-> "EpisodeSummary", status |-> "active", title |-> EpisodeTitle(g[1], g[3]),
     claims |-> <<>>, confidence |-> 80, evidence_count |-> n,
     confirmation_count |-> 1, created_at |-> t]

CompactedRow(id, scope, g, n, t) ==
    [id |-> id, tenant_id |-> scope.tenant_id, workspace_id |-> scope.workspace_id,
     repo_id |-> g[2], module |-> g[3], user_id |-> scope.user_id,
     session_id |-> None, task_id |-> None,
     type |-> "EpisodeSummary", status |-> "active", title |-> EpisodeTitle(g[1], g[3]),
     claims |-> <<>>, confidence |-> 8, evidence_count |-> n,
     confirmation_count |-> 1, created_at |-> t]

(* The loop over the groups `todo` of the SELECT, which ran on store s0:
   the working stores and the two counters. *)
RECURSIVE CompactLoop(_, _, _, _, _, _, _)
CompactLoop(s0, scope, todo, next_id, t, acc, counts) ==
    IF todo = <<>> THEN [steps |-> acc, counts |-> counts]
    ELSE LET g == Head(todo)
             ids == GroupIds(s0, scope, g)
             n == Cardinality(ids)
             cur == IF acc = <<>> THEN s0 ELSE acc[Len(acc)]
             title == EpisodeTitle(g[1], g[3])
             s1 == [cur EXCEPT !.l1 = @ \cup {CompactedRow(next_id, scope, g, n, t)}]
             s2 == [s1 EXCEPT !.l1_fts = BagInsert(@, FtsRow(next_id, title))]
             s3 == [s2 EXCEPT !.l1 = {IF r.id \in ids THEN [r EXCEPT !.status = "archived"]
                                      ELSE r : r \in @}]
         IN  IF n < 2
             THEN CompactLoop(s0, scope, Tail(todo), next_id, t, acc, counts)
             ELSE CompactLoop(s0, scope, Tail(todo), next_id + 1, t,
                              acc \o <<s1, s2, s3>>,
                              [compacted |-> counts.compacted + n,
                               episodes |-> counts.episodes + 1])

gc_compact(s, scope, groups, next_id, t) ==
    IF scope = NoScope
    THEN Txn(<<>>, FALSE, [status |-> "error", message |-> "Scope required for compaction"])
    ELSE LET r == CompactLoop(s, scope, groups, next_id, t, <<>>,
                              [compacted |-> 0, episodes |-> 0])
         IN  Txn(r.steps, FALSE,
                 [status |-> "ok", compacted_observations |-> r.counts.compacted,
                  episodes_created |-> r.counts.episodes])

----------------------------------------------------------------------------
(* The calls.  One action per operation: its inputs, how many of its
   statements run before a failure (all of them when none occurs), the store
   it leaves, and the record of the call.  The parameter d names the sets the
   inputs of a specification are drawn from. *)

SetStore(s) ==
    /\ memory_l0' = s.l0
    /\ memory_l1' = s.l1
    /\ memory_l1_fts' = s.l1_fts
    /\ memory_l2_nodes' = s.l2
    /\ memory_l2_fts' = s.l2_fts
    /\ memory_artifacts' = s.artifacts
    /\ memory_l2_edges' = s.edges
    /\ tombstones' = s.tombstones
    /\ idempotency' = s.idem

Call(op, scope, key, args, result) ==
    [op |-> op, scope |-> scope, key |-> key, args |-> args, result |-> result]

IsFailure(result) ==
    "status" \in DOMAIN result /\ result.status \in {"error", "raised"}

(* The first call that succeeded with (tenant, key) is remembered with the
   operation it was a call of. *)
Remember(op, scope, key, result) ==
    IF \/ key = None
       \/ IsFailure(result)
       \/ \E f \in firstCall : f.tenant_id = scope.tenant_id /\ f.key = key
    THEN firstCall
    ELSE firstCall \cup {[tenant_id |-> scope.tenant_id, key |-> key,
                          op |-> op, result |-> result]}

(* After how many statements a call may fail; Len(steps) is no failure. *)
FailPoints(d, txn) == IF d.faults THEN 0..Len(txn.steps) ELSE {Len(txn.steps)}

NextL0 == L0Base + minted.l0 + 1
NextL1 == L1Base + minted.l1 + 1
NextL2 == L2Base + minted.l2 + 1

UpsertEvent(d) ==
    \E scope \in d.scopes, payload \in d.events, key \in d.keys, distill \in d.distill :
        LET txn == upsert_event(Store, scope, payload, key, distill, NextL0, NextL1, now)
        IN  \E n \in FailPoints(d, txn) :
            /\ txn.steps # <<>> =>
                   (minted.l0 < MaxL0 /\ (distill => minted.l1 < MaxL1))
            /\ SetStore(Finish(Store, txn, n))
            /\ minted' = IF txn.steps # <<>> /\ Completes(txn, n)
                         THEN [minted EXCEPT !.l0 = @ + 1,
                                             !.l1 = IF distill THEN @ + 1 ELSE @]
                         ELSE minted
            /\ last' = Call("upsert_event", scope, key,
                            [payload |-> payload, distill |-> distill], Outcome(txn, n))
            /\ firstCall' = Remember("upsert_event", scope, key, Outcome(txn, n))
            /\ UNCHANGED <<graph_nodes, graph_edges, now, procs>>

CommitEpisode(d) ==
    \E scope \in d.scopes, payload \in d.episodes, key \in d.keys :
      \E target_id \in EpisodeTargets(Store, scope) :
        LET txn == commit_episode(Store, scope, payload, key, target_id, NextL1, now)
            creates == txn.steps # <<>> /\ target_id = NoId
        IN  \E n \in FailPoints(d, txn) :
            /\ creates => minted.l1 < MaxL1
            /\ SetStore(Finish(Store, txn, n))
            /\ minted' = IF creates /\ Completes(txn, n)
                         THEN [minted EXCEPT !.l1 = @ + 1] ELSE minted
            /\ last' = Call("commit_episode", scope, key, [payload |-> payload],
                            Outcome(txn, n))
            /\ firstCall' = Remember("commit_episode", scope, key, Outcome(txn, n))
            /\ UNCHANGED <<graph_nodes, graph_edges, now, procs>>

PromoteToL2(d) ==
    \E scope \in d.scopes, draft \in d.drafts, artifact \in d.artifacts,
       key \in d.keys, mode \in d.modes :
        LET txn == promote_to_l2(Store, scope, draft, artifact, key, NextL2, now)
        IN  \E n \in FailPoints(d, txn) :
            LET projects == txn.steps # <<>> /\ n >= PromoteProjectsAfter
            IN  /\ txn.steps # <<>> => minted.l2 < d.max_l2
                /\ SetStore(Finish(Store, txn, n))
                /\ graph_nodes' = IF projects
                                  THEN GraphUpsertNode(graph_nodes, mode, NextL2)
                                  ELSE graph_nodes
                /\ minted' = IF txn.steps = <<>> THEN minted
                             ELSE IF Completes(txn, n) THEN [minted EXCEPT !.l2 = @ + 1]
                             ELSE IF projects /\ mode = "enabled"
                             THEN [minted EXCEPT !.l2 = @ + 1]
                             ELSE minted
                /\ last' = Call("promote_to_l2", scope, key,
                                [draft |-> draft, artifact |-> artifact], Outcome(txn, n))
                /\ firstCall' = Remember("promote_to_l2", scope, key, Outcome(txn, n))
                /\ UNCHANGED <<graph_edges, now, procs>>

MissingId == L2Base

LinkMemories(d) ==
    \E scope \in d.scopes, pair \in d.pairs,
       rel \in d.rels, weight \in d.weights, key \in d.linkkeys, mode \in d.modes :
        LET from_id == pair[1]
            to_id == pair[2]
            txn == link_memories(Store, scope, from_id, to_id, rel, weight, key, now)
        IN  \E n \in FailPoints(d, txn) :
            LET projects == txn.steps # <<>> /\ n >= LinkProjectsAfter
            IN  /\ SetStore(Finish(Store, txn, n))
                /\ graph_edges' = IF projects
                                  THEN GraphUpsertEdge(graph_nodes, graph_edges, mode,
                                                       from_id, to_id, rel)
                                  ELSE graph_edges
                /\ last' = Call("link_memories", scope, key,
                                [from_id |-> from_id, to_id |-> to_id, rel |-> rel,
                                 weight |-> weight], Outcome(txn, n))
                /\ firstCall' = Remember("link_memories", scope, key, Outcome(txn, n))
                /\ UNCHANGED <<graph_nodes, minted, now, procs>>

ExpandMemory(d) ==
    \E scope \in d.scopes, seed_id \in d.l2ids, hops \in d.hops, view \in d.views,
       budget \in d.budgets, mode \in d.modes :
        LET collected == ExpandCollect(Store, graph_nodes, graph_edges, mode,
                                       scope, seed_id, hops)
            found == {r \in memory_l2_nodes : r.id \in collected.node_ids}
        IN  \E rows \in Orders(found) :
              /\ last' = Call("expand_memory", scope, None,
                              [seed_id |-> seed_id, hops |-> hops, view |-> view,
                               budget |-> budget, mode |-> mode,
                               rows |-> [i \in DOMAIN rows |-> rows[i].id]],
                              expand_memory(Store, collected, rows, view, budget))
              /\ UNCHANGED <<tables, graph_nodes, graph_edges, minted, now, firstCall, procs>>

SearchMemory(d) ==
    \E scope \in d.scopes, query \in d.queries, view \in d.views,
       budget \in d.budgets, top_k \in d.tops, filters \in d.filters :
        \E top_items \in TopItems(SearchHits(Store, scope, query, filters), top_k) :
            /\ last' = Call("search_memory", scope, None,
                            [query |-> query, view |-> view, budget |-> budget,
                             top_k |-> top_k, filters |-> filters,
                             rows |-> [i \in DOMAIN top_items |-> top_items[i][1].id]],
                            search_memory(Store, top_items, view, budget))
            /\ UNCHANGED <<tables, graph_nodes, graph_edges, minted, now, firstCall, procs>>

ForgetMemory(d) ==
    \E scope \in d.scopes, selector \in d.selectors :
        LET txn == forget_memory(Store, scope, selector, now)
        IN  \E n \in FailPoints(d, txn) :
            /\ SetStore(Finish(Store, txn, n))
            /\ last' = Call("forget_memory", scope, None, [selector |-> selector],
                            Outcome(txn, n))
            /\ UNCHANGED <<graph_nodes, graph_edges, minted, now, firstCall, procs>>

DeprecateMemory(d) ==
    \E scope \in d.scopes, memory_id \in d.ids, superseded_by \in d.superseded :
        LET txn == deprecate_memory(Store, scope, memory_id, superseded_by)
        IN  \E n \in FailPoints(d, txn) :
            /\ SetStore(Finish(Store, txn, n))
            /\ last' = Call("deprecate_memory", scope, None,
                            [memory_id |-> memory_id, superseded_by |-> superseded_by],
                            Outcome(txn, n))
            /\ UNCHANGED <<graph_nodes, graph_edges, minted, now, firstCall, procs>>

GcSweep(d) ==
    LET txn == gc_sweep(Store, now)
    IN  \E n \in FailPoints(d, txn) :
        /\ SetStore(Finish(Store, txn, n))
        /\ last' = Call("gc_sweep", NoScope, None, <<>>, Outcome(txn, n))
        /\ UNCHANGED <<graph_nodes, graph_edges, minted, now, firstCall, procs>>

GcCompact(d) ==
    \E scope \in d.scopes :
      \E groups \in Orders(IF scope = NoScope THEN {} ELSE CompactGroups(Store, scope)) :
        LET txn == gc_compact(Store, scope, groups, NextL1, now)
            made == Len(txn.steps) \div 3
        IN  \E n \in FailPoints(d, txn) :
            /\ minted.l1 + made <= MaxL1
            /\ SetStore(Finish(Store, txn, n))
            /\ minted' = IF Completes(txn, n) THEN [minted EXCEPT !.l1 = @ + made]
                         ELSE minted
            /\ last' = Call("gc_compact", scope, None, <<>>, Outcome(txn, n))
            /\ UNCHANGED <<graph_nodes, graph_edges, now, firstCall, procs>>

(* Two processes, each with a connection of its own to the database file.
   A call runs as its statements: the gate SELECT, the lookup SELECT of
   commit_episode, then its writes.  A SELECT outside a transaction reads what
   is committed at that moment.  The first write takes the write lock of the
   file and holds it until the commit or the close; while one process holds
   it another's first write waits, and raises "database is locked" when
   busy_timeout runs out. *)
Procs == {"p1", "p2"}

Idle ==
    [pc |-> "idle", op |-> "none", scope |-> NoScope, key |-> None,
     payload |-> <<>>, distill |-> FALSE, target_id |-> NoId,
     result |-> NoResult, tries |-> 0]

(* How often a failed call is tried again. *)
MaxRetries == 1

ProcOps == {"upsert_event", "commit_episode"}

Locked == \E q \in Procs : procs[q].pc = "writing"

(* The calls process p may start: any call of d when idle, its own call again
   after a failure. *)
ProcCalls(d, p) ==
    IF procs[p].pc = "idle"
    THEN {[Idle EXCEPT !.op = c[1], !.scope = c[2], !.key = c[3],
                       !.payload = IF c[1] = "upsert_event" THEN c[4] ELSE c[5],
                       !.distill = c[1] = "upsert_event" /\ c[6]] :
             c \in d.ops \X d.scopes \X d.keys \X d.events \X d.episodes \X d.distill}
    ELSE IF procs[p].pc = "done" /\ procs[p].result = Exception
            /\ procs[p].tries <= MaxRetries
    THEN {[procs[p] EXCEPT !.target_id = NoId, !.result = NoResult]}
    ELSE {}

(* check_idempotency on the process's connection: a hit returns the stored
   result. *)
ProcGate(d) ==
    \E p \in Procs : \E call \in ProcCalls(d, p) :
        LET existing == check_idempotency(Store, call.scope.tenant_id, call.key)
        IN  /\ procs' = [procs EXCEPT ![p] =
                   IF Truthy(existing)
                   THEN [call EXCEPT !.pc = "done", !.result = existing, !.tries = @ + 1]
                   ELSE [call EXCEPT !.pc = IF call.op = "commit_episode"
                                            THEN "lookup" ELSE "ready",
                                     !.tries = @ + 1]]
            /\ UNCHANGED <<tables, graph_nodes, graph_edges, minted, now, last, firstCall>>

(* The lookup SELECT of commit_episode. *)
ProcLookup(d) ==
    \E p \in Procs :
        /\ procs[p].pc = "lookup"
        /\ \E target_id \in EpisodeTargets(Store, procs[p].scope) :
               procs' = [procs EXCEPT ![p].pc = "ready", ![p].target_id = target_id]
        /\ UNCHANGED <<tables, graph_nodes, graph_edges, minted, now, last, firstCall>>

(* The first write statement gets the write lock. *)
ProcBegin(d) ==
    \E p \in Procs :
        /\ procs[p].pc = "ready" /\ ~Locked
        /\ procs[p].op = "upsert_event" =>
               (minted.l0 < MaxL0 /\ (procs[p].distill => minted.l1 < MaxL1))
        /\ (procs[p].op = "commit_episode" /\ procs[p].target_id = NoId) =>
               minted.l1 < MaxL1
        /\ procs' = [procs EXCEPT ![p].pc = "writing"]
        /\ UNCHANGED <<tables, graph_nodes, graph_edges, minted, now, last, firstCall>>

(* The first write statement waits for the lock until busy_timeout runs out:
   sqlite3.OperationalError, and the connection is closed. *)
ProcBusy(d) ==
    \E p \in Procs :
        /\ procs[p].pc = "ready" /\ Locked
        /\ procs' = [procs EXCEPT ![p].pc = "done", ![p].result = Exception]
        /\ UNCHANGED <<tables, graph_nodes, graph_edges, minted, now, last, firstCall>>

ProcTxn(c) ==
    IF c.op = "upsert_event"
    THEN upsert_event_writes(Store, c.scope, c.payload, c.key, c.distill, NextL0, NextL1, now)
    ELSE commit_episode_writes(Store, c.scope, c.payload, c.key, c.target_id, NextL1, now)

(* The writes, record_idempotency and the commit, or a failure on the way and
   the close; the lock is released. *)
ProcFinish(d) ==
    \E p \in Procs :
        /\ procs[p].pc = "writing"
        /\ LET c == procs[p]
               txn == ProcTxn(c)
           IN  \E n \in FailPoints(d, txn) :
                 /\ SetStore(Finish(Store, txn, n))
                 /\ minted' =
                        IF ~Completes(txn, n) THEN minted
                        ELSE IF c.op = "upsert_event"
                        THEN [minted EXCEPT !.l0 = @ + 1,
                                            !.l1 = IF c.distill THEN @ + 1 ELSE @]
                        ELSE IF c.target_id = NoId THEN [minted EXCEPT !.l1 = @ + 1]
                        ELSE minted
                 /\ procs' = [procs EXCEPT ![p].pc = "done",
                                           ![p].result = Outcome(txn, n)]
                 /\ last' = Call(c.op, c.scope, c.key, [payload |-> c.payload],
                                 Outcome(txn, n))
                 /\ firstCall' = Remember(c.op, c.scope, c.key, Outcome(txn, n))
        /\ UNCHANGED <<graph_nodes, graph_edges, now>>

(* Time passes between calls. *)
MaxNow == 25

Tick(d) ==
    \E h \in d.ticks :
        /\ now + h <= MaxNow
        /\ now' = now + h
        /\ UNCHANGED <<tables, graph_nodes, graph_edges, minted, last, firstCall, procs>>

----------------------------------------------------------------------------

Init ==
    /\ memory_l0 = {}
    /\ memory_l1 = {}
    /\ memory_l1_fts = EmptyBag
    /\ memory_l2_nodes = {}
    /\ memory_l2_fts = EmptyBag
    /\ memory_artifacts = {}
    /\ memory_l2_edges = {}
    /\ tombstones = {}
    /\ idempotency = {}
    /\ graph_nodes = {}
    /\ graph_edges = {}
    /\ minted = [l0 |-> 0, l1 |-> 0, l2 |-> 0]
    /\ now = 0
    /\ last = Call("init", NoScope, None, <<>>, NoResult)
    /\ firstCall = {}
    /\ procs = [p \in Procs |-> Idle]

----------------------------------------------------------------------------
(* The specifications: each draws the inputs of its calls from the sets of
   one record. *)

BaseInputs ==
    [scopes |-> {ScopeS1}, keys |-> {"k1"}, linkkeys |-> {None},
     events |-> {EventLeak}, distill |-> {TRUE}, episodes |-> {Episode1},
     drafts |-> {DraftFact}, artifacts |-> {ArtifactFile}, modes |-> {"disabled"},
     l2ids |-> L2Ids \cup {MissingId}, rels |-> {RelatedTo}, weights |-> {1},
     pairs |-> (L2Ids \cup {MissingId}) \X (L2Ids \cup {MissingId}),
     max_l2 |-> MaxL2, hops |-> 1..MaxHops,
     views |-> {"detail"}, budgets |-> {1000}, selectors |-> {SelectorAll},
     queries |-> {"fact"}, tops |-> {2}, filters |-> {NoFilters},
     ids |-> L1Ids \cup L2Ids \cup {MissingId}, superseded |-> {NoId},
     ticks |-> {25}, faults |-> FALSE, ops |-> ProcOps]

(* Ingestion under replayed keys: two tenants sharing one key, every keyed
   operation, and links without a key. *)
IdemInputs ==
    [BaseInputs EXCEPT !.scopes = {ScopeS1, ScopeT2},
                       !.linkkeys = {"k1", None}, !.distill = BOOLEAN,
                       !.drafts = {DraftFact, DraftNoClaims}]

NextIdem ==
    \/ UpsertEvent(IdemInputs)
    \/ CommitEpisode(IdemInputs)
    \/ PromoteToL2(IdemInputs)
    \/ LinkMemories(IdemInputs)

SpecIdem == Init /\ [][NextIdem]_vars

----------------------------------------------------------------------------
(* The idempotency gate: C1, C2. *)

KeyedOps == {"upsert_event", "commit_episode", "promote_to_l2", "link_memories"}

Returned == last.result # Exception

(* The remembered first successful calls the last call repeats: same
   tenant, same key. *)
FirstOf(call, history) ==
    IF call.op \in KeyedOps /\ call.key # None
    THEN {f \in history : f.tenant_id = call.scope.tenant_id /\ f.key = call.key}
    ELSE {}

(* C1: once a call of a keyed operation with (tenant_id, key) has succeeded,
   every later call of that operation with the same (tenant_id, key) that
   returns, whatever else it carries, returns the result of that first call. *)
C1_ReplayReturnsFirstResult ==
    \A f \in FirstOf(last, firstCall) :
        (f.op = last.op /\ Returned) => last.result = f.result

(* C2: a call that repeats a (tenant_id, key) an earlier call succeeded with
   leaves every table and the accelerator as they were, and when both are
   upsert_event calls exactly one L0 row has the id the first call returned. *)
C2_ReplayLeavesTablesUnchanged ==
    [][FirstOf(last', firstCall) # {} =>
          /\ UNCHANGED <<tables, graph_nodes, graph_edges>>
          /\ \A f \in FirstOf(last', firstCall) :
                (f.op = "upsert_event" /\ last'.op = "upsert_event") =>
                    Cardinality({r \in memory_l0' : r.id = f.result.id}) = 1]_vars

(* A replayed upsert_event: it asked for no distillation and was answered
   with the l1_id of the first call. *)
C2_Witness ==
    /\ last.op = "upsert_event"
    /\ ~last.args.distill
    /\ "l1_id" \in DOMAIN last.result
    /\ \E f \in FirstOf(last, firstCall) : f.op = "upsert_event" /\ f.result = last.result

----------------------------------------------------------------------------
(* Atomicity: C3.  Every mutating operation, each able to fail after any
   number of its statements. *)

AtomicInputs ==
    [BaseInputs EXCEPT !.faults = TRUE, !.keys = {"k1", "k2"}, !.linkkeys = {"k1", None},
                       !.ids = {L1Base + 1, L2Base + 1, MissingId},
                       !.l2ids = {L2Base + 1, MissingId},
                       !.pairs = {L2Base + 1, MissingId} \X {L2Base + 1, MissingId},
                       !.superseded = {NoId, L2Base + 1}]

NextAtomic ==
    \/ UpsertEvent(AtomicInputs)
    \/ CommitEpisode(AtomicInputs)
    \/ PromoteToL2(AtomicInputs)
    \/ LinkMemories(AtomicInputs)
    \/ ForgetMemory(AtomicInputs)
    \/ DeprecateMemory(AtomicInputs)
    \/ GcSweep(AtomicInputs)
    \/ GcCompact(AtomicInputs)
    \/ Tick(AtomicInputs)

SpecAtomic == Init /\ [][NextAtomic]_vars

(* What a recorded result says was written is in store s. *)
EffectsIn(s, call) ==
    LET r == call.result
    IN  CASE call.op = "upsert_event" ->
                /\ \E x \in s.l0 : x.id = r.id
                /\ "l1_id" \in DOMAIN r =>
                       /\ \E x \in s.l1 : x.id = r.l1_id
                       /\ \E x \in BagToSet(s.l1_fts) : x.id = r.l1_id
          [] call.op = "commit_episode" ->
                /\ \E x \in s.l1 : x.id = r.id
                /\ \E x \in BagToSet(s.l1_fts) : x.id = r.id
          [] call.op = "promote_to_l2" ->
                /\ \E x \in s.l2 : x.id = r.id
                /\ \E x \in BagToSet(s.l2_fts) : x.id = r.id
                /\ \E x \in s.artifacts : x.memory_id = r.id
          [] call.op = "link_memories" ->
                \E e \in s.edges : /\ e.from_id = r.from /\ e.to_id = r.to
                                   /\ e.rel = r.rel
                                   /\ e.tenant_id = call.scope.tenant_id
          [] OTHER -> FALSE

dataTables == <<memory_l0, memory_l1, memory_l1_fts, memory_l2_nodes, memory_l2_fts,
                memory_artifacts, memory_l2_edges, tombstones>>

(* C3: a call that fails (raises after any number of statements, or returns
   an error) leaves every table as it was; an idempotency record appears only
   together with the writes of the call it records, and a keyed call that
   changes a table leaves its record in the same step. *)
C3_AllOrNothing ==
    [][/\ IsFailure(last'.result) => UNCHANGED tables
       /\ idempotency' # idempotency =>
              /\ last'.op \in KeyedOps
              /\ idempotency' = idempotency \cup
                     {[tenant_id |-> last'.scope.tenant_id, key |-> last'.key,
                       result_json |-> JsonDumps(last'.result)]}
              /\ EffectsIn(Store', last')
       /\ (/\ last'.op \in KeyedOps /\ last'.key # None
           /\ dataTables' # dataTables) => idempotency' # idempotency]_vars

(* forget_memory failed with rows to delete in the store, and they are there. *)
C3_Witness ==
    /\ last.op = "forget_memory"
    /\ last.result = Exception
    /\ memory_l0 # {} /\ memory_l1 # {} /\ memory_l2_nodes # {}
    /\ idempotency # {}

----------------------------------------------------------------------------
(* Search projection: C4. *)

FtsInputs ==
    [BaseInputs EXCEPT !.scopes = {ScopeS1, ScopeW2}, !.keys = {"k1", "k2"},
                       !.episodes = {Episode1, Episode2},
                       !.ids = {L1Base + 1, L2Base + 1}]

NextFts ==
    \/ UpsertEvent(FtsInputs)
    \/ CommitEpisode(FtsInputs)
    \/ PromoteToL2(FtsInputs)
    \/ ForgetMemory(FtsInputs)
    \/ DeprecateMemory(FtsInputs)
    \/ GcCompact(FtsInputs)

SpecFts == Init /\ [][NextFts]_vars

(* The number of rows of FTS table B whose id is id. *)
FtsCount(B, id) ==
    BagCardinality([r \in {x \in DOMAIN B : x.id = id} |-> B[r]])

FtsIds(B) == {r.id : r \in BagToSet(B)}

(* C4: an id has a row in memory_l1_fts iff it has one in memory_l1, and then
   exactly one; likewise memory_l2_fts and memory_l2_nodes. *)
C4_FtsIffCanonical ==
    /\ FtsIds(memory_l1_fts) = {r.id : r \in memory_l1}
    /\ \A r \in memory_l1 : FtsCount(memory_l1_fts, r.id) = 1
    /\ FtsIds(memory_l2_fts) = {r.id : r \in memory_l2_nodes}
    /\ \A r \in memory_l2_nodes : FtsCount(memory_l2_fts, r.id) = 1

(* forget_memory deleted L1 rows of one workspace while another workspace
   keeps its own. *)
C4_Witness ==
    /\ last.op = "forget_memory"
    /\ "deleted_l1" \in DOMAIN last.result
    /\ last.result.deleted_l1 > 0
    /\ memory_l1 # {}

----------------------------------------------------------------------------
(* Promotion: C5, C6. *)

PromoteInputs ==
    [BaseInputs EXCEPT !.keys = {"k1", "k2"},
                       !.drafts = {DraftFact, DraftNoClaims, DraftBadType, DraftBadBoth},
                       !.artifacts = {ArtifactFile, ArtifactUrl},
                       !.modes = {"disabled", "enabled"},
                       !.ids = {L2Base + 1, L2Base + 2}]

NextPromote ==
    \/ PromoteToL2(PromoteInputs)
    \/ DeprecateMemory(PromoteInputs)
    \/ ForgetMemory(PromoteInputs)

SpecPromote == Init /\ [][NextPromote]_vars

(* The step is a promote_to_l2 call. *)
PromoteStep == last'.op = "promote_to_l2"

RejectedDraft(draft) == draft.claims = <<>> \/ draft.type \notin L2Types

PromotionRejected(result) ==
    /\ "error_code" \in DOMAIN result
    /\ result.status = "error"
    /\ result.error_code = "PROMOTION_VALIDATION_FAILED"

(* C5 as stated: a draft with no claims or with a type outside the L2 types is
   rejected with PROMOTION_VALIDATION_FAILED, the message being "No claims
   provided" whenever the claims are empty, and nothing changes. *)
C5_RejectedWithNoClaimsMessage ==
    [][(PromoteStep /\ RejectedDraft(last'.args.draft)) =>
          /\ PromotionRejected(last'.result)
          /\ last'.args.draft.claims = <<>> => last'.result.message = "No claims provided"
          /\ UNCHANGED <<tables, graph_nodes, graph_edges>>]_vars

(* C5 amended: the same, the message being "No claims provided" when the
   claims are empty and the type is one of the L2 types; a type outside them
   is reported first, as "Invalid type". *)
C5_RejectedTypeFirst ==
    [][(PromoteStep /\ RejectedDraft(last'.args.draft)) =>
          /\ PromotionRejected(last'.result)
          /\ last'.result.message =
                 IF last'.args.draft.type \notin L2Types THEN "Invalid type"
                 ELSE "No claims provided"
          /\ UNCHANGED <<tables, graph_nodes, graph_edges>>]_vars

(* A draft with no claims was rejected while the store holds a node and the
   accelerator is projecting. *)
C5_Witness ==
    /\ last.op = "promote_to_l2"
    /\ last.args.draft = DraftNoClaims
    /\ PromotionRejected(last.result)
    /\ memory_l2_nodes # {}
    /\ graph_nodes # {}

FreshKey(tenant_id, key) == ~Truthy(check_idempotency(Store, tenant_id, key))

(* C6: a promote_to_l2 call with a fresh key and a valid draft returns ok with
   the id of the one node it adds (active, version 1, confidence 1.0, counts
   1 and 1), adds exactly one FTS row, of that id, and exactly one artifact
   row, of layer L2 and with memory_id that id. *)
C6_AcceptedPromotion ==
    [][(/\ PromoteStep
        /\ FreshKey(last'.scope.tenant_id, last'.key)
        /\ ~RejectedDraft(last'.args.draft)) =>
          /\ last'.result.status = "ok"
          /\ \E row \in memory_l2_nodes' :
                /\ row.id = last'.result.id
                /\ row.id \notin {r.id : r \in memory_l2_nodes}
                /\ memory_l2_nodes' = memory_l2_nodes \cup {row}
                /\ row.status = "active" /\ row.version = 1 /\ row.confidence = 10
                /\ row.evidence_count = 1 /\ row.confirmation_count = 1
          /\ BagCardinality(memory_l2_fts') = BagCardinality(memory_l2_fts) + 1
          /\ FtsCount(memory_l2_fts', last'.result.id) = 1
          /\ \E a \in memory_artifacts' :
                /\ a \notin memory_artifacts
                /\ memory_artifacts' = memory_artifacts \cup {a}
                /\ a.memory_id = last'.result.id
                /\ a.layer = "L2"]_vars

(* The second node was promoted with an artifact ref whose memory_id names the
   first node and whose layer is L1. *)
C6_Witness ==
    /\ last.op = "promote_to_l2"
    /\ last.args.artifact = ArtifactUrl
    /\ "id" \in DOMAIN last.result
    /\ last.result.id = L2Base + 2
    /\ \E a \in memory_artifacts : a.memory_id = L2Base + 2 /\ a.kind = "url"

----------------------------------------------------------------------------
(* Episodes: C7. *)

EpisodeInputs ==
    [BaseInputs EXCEPT !.scopes = {ScopeS1, ScopeTask},
                       !.keys = {"k1", "k2", "k3"},
                       !.episodes = {Episode1, Episode2}]

NextEpisode ==
    \/ CommitEpisode(EpisodeInputs)
    \/ UpsertEvent(EpisodeInputs)
    \/ ForgetMemory(EpisodeInputs)

SpecEpisode == Init /\ [][NextEpisode]_vars

(* The EpisodeSummary rows the scope names: by session when the scope has one,
   else by task. *)
EpisodesOf(scope) ==
    {r \in memory_l1 :
        /\ r.type = "EpisodeSummary"
        /\ r.tenant_id = scope.tenant_id /\ r.workspace_id = scope.workspace_id
        /\ IF scope.session_id # None THEN r.session_id = scope.session_id
           ELSE scope.task_id # None /\ r.task_id = scope.task_id}

(* C7: a commit_episode call with a fresh key either updates an EpisodeSummary
   of the scope's session (of its task when it has no session): returns that
   id with action "updated", overwrites the payload fields, adds one to
   confirmation_count and creates no row; or, when there is none, creates
   exactly one EpisodeSummary (active, confidence 1.0, counts 0 and 1) and
   returns action "created". *)
C7_EpisodeUpsert ==
    [][(/\ last'.op = "commit_episode"
        /\ FreshKey(last'.scope.tenant_id, last'.key)) =>
          IF EpisodesOf(last'.scope) # {}
          THEN \E r \in EpisodesOf(last'.scope) :
                  /\ last'.result = [id |-> r.id, action |-> "updated"]
                  /\ memory_l1' = (memory_l1 \ {r}) \cup
                        {[r EXCEPT !.title = last'.args.payload.title,
                                   !.claims = last'.args.payload.claims,
                                   !.confirmation_count = r.confirmation_count + 1]}
                  /\ BagCardinality(memory_l1_fts') = BagCardinality(memory_l1_fts)
                  /\ UNCHANGED <<memory_l0, memory_l2_nodes>>
          ELSE \E row \in memory_l1' :
                  /\ last'.result = [id |-> row.id, action |-> "created"]
                  /\ row.id \notin {r.id : r \in memory_l1}
                  /\ memory_l1' = memory_l1 \cup {row}
                  /\ row.type = "EpisodeSummary" /\ row.status = "active"
                  /\ row.confidence = 10 /\ row.evidence_count = 0
                  /\ row.confirmation_count = 1]_vars

(* A third commit confirmed an episode again, found by task among two
   episodes of that task. *)
C7_Witness ==
    /\ last.op = "commit_episode"
    /\ last.scope = ScopeTask
    /\ "action" \in DOMAIN last.result
    /\ last.result.action = "updated"
    /\ \E r \in memory_l1 : r.id = last.result.id /\ r.confirmation_count = 2
    /\ Cardinality({r \in memory_l1 : r.type = "EpisodeSummary"}) = 2

----------------------------------------------------------------------------
(* Observations: C8 (checked under SpecIdem). *)

(* C8: an upsert_event call with a fresh key and distill creates exactly one
   L0 row and exactly one L1 row, an Observation (active, confidence 0.5,
   counts 0 and 1), and returns {id, layer: "L0", l1_id}; without distill it
   creates the L0 row only and the result has no l1_id. *)
C8_ObservationAtHalfConfidence ==
    [][(/\ last'.op = "upsert_event"
        /\ FreshKey(last'.scope.tenant_id, last'.key)) =>
          /\ \E row \in memory_l0' :
                /\ row.id = last'.result.id
                /\ row \notin memory_l0
                /\ memory_l0' = memory_l0 \cup {row}
          /\ last'.result.layer = "L0"
          /\ IF last'.args.distill
             THEN /\ DOMAIN last'.result = {"id", "layer", "l1_id"}
                  /\ \E row \in memory_l1' :
                        /\ row.id = last'.result.l1_id
                        /\ row \notin memory_l1
                        /\ memory_l1' = memory_l1 \cup {row}
                        /\ row.type = "Observation" /\ row.status = "active"
                        /\ row.confidence = 5 /\ row.evidence_count = 0
                        /\ row.confirmation_count = 1
             ELSE /\ DOMAIN last'.result = {"id", "layer"}
                  /\ memory_l1' = memory_l1]_vars

----------------------------------------------------------------------------
(* Edges and expansion: C9, C10. *)

GraphInputs ==
    [BaseInputs EXCEPT !.keys = {"k1", "k2"}, !.linkkeys = {"k3", None},
                       !.modes = {"disabled", "enabled"},
                       !.l2ids = {L2Base + 1, L2Base + 2, MissingId},
                       !.pairs = {L2Base + 1, L2Base + 2, MissingId}
                                     \X {L2Base + 1, L2Base + 2, MissingId}]

NextGraph ==
    \/ PromoteToL2(GraphInputs)
    \/ LinkMemories(GraphInputs)
    \/ ExpandMemory(GraphInputs)

SpecGraph == Init /\ [][NextGraph]_vars

L2NodeIds == {r.id : r \in memory_l2_nodes}

EdgesHaveEndpoints ==
    \A e \in memory_l2_edges : e.from_id \in L2NodeIds /\ e.to_id \in L2NodeIds

EndpointMissing(args) == args.from_id \notin L2NodeIds \/ args.to_id \notin L2NodeIds

IsNotFound(result) ==
    /\ "error_code" \in DOMAIN result
    /\ result.status = "error" /\ result.error_code = "NOT_FOUND"

(* C9 as stated: every link_memories call with a missing endpoint returns
   NOT_FOUND and leaves the edge table unchanged, and every edge row has both
   endpoints in memory_l2_nodes. *)
C9_MissingEndpointIsNotFound ==
    /\ [][(last'.op = "link_memories" /\ EndpointMissing(last'.args)) =>
             /\ IsNotFound(last'.result)
             /\ UNCHANGED memory_l2_edges]_vars
    /\ []EdgesHaveEndpoints

(* C9 amended: a link_memories call with a missing endpoint leaves the edge
   table unchanged, and returns NOT_FOUND unless its key is already recorded
   (then it returns the recorded result); every edge row has both endpoints
   in memory_l2_nodes. *)
C9_EdgesOnlyBetweenNodes ==
    /\ [][(last'.op = "link_memories" /\ EndpointMissing(last'.args)) =>
             /\ UNCHANGED memory_l2_edges
             /\ (last'.key = None \/ FreshKey(last'.scope.tenant_id, last'.key))
                    => IsNotFound(last'.result)]_vars
    /\ []EdgesHaveEndpoints

(* A link to a missing node was refused while the edge table holds an edge. *)
C9_Witness ==
    /\ last.op = "link_memories"
    /\ last.args.to_id = MissingId
    /\ IsNotFound(last.result)
    /\ memory_l2_edges # {}

(* C10: an expand_memory(scope, a, hops = 1) call returns, for every edge
   (a, rel, b) of the scope with a # b that link_memories has stored, the
   path {from: a, rel: rel, to: b} and an item for b (the budget holds every
   node of the store). *)
C10_LinkThenExpand ==
    (last.op = "expand_memory" /\ last.args.hops = 1) =>
        \A e \in ScopeEdges(Store, last.scope) :
            (e.from_id = last.args.seed_id /\ e.to_id # e.from_id) =>
                /\ Triple(e.from_id, e.rel, e.to_id) \in last.result.paths
                /\ \E i \in DOMAIN last.result.items :
                       last.result.items[i].id = e.to_id

----------------------------------------------------------------------------
(* Expansion over the edge table: C11.  Four nodes, linked into a chain with
   a shortcut and a back edge, expanded up to three hops with the accelerator
   disabled. *)

ChainIds == (L2Base + 1)..(L2Base + MaxL2 + 2)

ChainInputs ==
    [BaseInputs EXCEPT !.keys = {"k1", "k2", "k3", "k4"},
                       !.max_l2 = MaxL2 + 2,
                       !.l2ids = ChainIds,
                       !.pairs = {<<L2Base + 1, L2Base + 2>>, <<L2Base + 2, L2Base + 3>>,
                                  <<L2Base + 3, L2Base + 4>>, <<L2Base + 1, L2Base + 3>>,
                                  <<L2Base + 2, L2Base + 1>>},
                       !.hops = 1..(MaxHops + 1)]

NextChain ==
    \/ PromoteToL2(ChainInputs)
    \/ LinkMemories(ChainInputs)
    \/ ExpandMemory(ChainInputs)

SpecChain == Init /\ [][NextChain]_vars

(* The nodes a directed path of 1..h edges of E leads to from the seed. *)
RECURSIVE ReachWithin(_, _, _)
ReachWithin(E, seed_id, h) ==
    IF h = 0 THEN {}
    ELSE LET nearer == ReachWithin(E, seed_id, h - 1)
         IN  nearer \cup {e.to_id : e \in {x \in E : x.from_id \in nearer \cup {seed_id}}}

ItemIds(result) == {result.items[i].id : i \in DOMAIN result.items}

(* C11: with the accelerator disabled, the items of expand_memory(scope, seed,
   hops = h) are exactly the nodes a path of 1..h edges of the scope's edges
   leads to from the seed (the seed itself aside, which the frontier leaves
   out; the budget holds every node). *)
C11_FallbackReachesWithinHops ==
    (last.op = "expand_memory" /\ last.args.mode = "disabled") =>
        ItemIds(last.result) \ {last.args.seed_id} =
            ReachWithin(ScopeEdges(Store, last.scope), last.args.seed_id,
                        last.args.hops) \ {last.args.seed_id}

(* The same for one and two hops only, which is what the fallback walks. *)
C11_UpToTwoHops ==
    (last.op = "expand_memory" /\ last.args.mode = "disabled"
        /\ last.args.hops <= 2) =>
        ItemIds(last.result) \ {last.args.seed_id} =
            ReachWithin(ScopeEdges(Store, last.scope), last.args.seed_id,
                        last.args.hops) \ {last.args.seed_id}

----------------------------------------------------------------------------
(* Accelerator independence: C12 (checked under SpecGraph, where each call
   finds the accelerator enabled or not). *)

(* C12: whatever the accelerator was during the promotions and links, and
   whatever it is now, expand_memory returns the neighbour ids and the path
   triples that the fallback computes from memory_l2_edges (the seed aside
   among the ids). *)
C12_SameAnswerAsFallback ==
    last.op = "expand_memory" =>
        LET fallback == FallbackExpand(Store, last.scope, last.args.seed_id,
                                       last.args.hops)
        IN  /\ ItemIds(last.result) \ {last.args.seed_id} =
                   fallback.node_ids \ {last.args.seed_id}
            /\ last.result.paths = fallback.paths

----------------------------------------------------------------------------
(* Deprecation: C13.  Two tenants, rows of both tiers, ids of either tenant
   and an id of no row. *)

DeprecateInputs ==
    [BaseInputs EXCEPT !.scopes = {ScopeS1, ScopeT2}, !.keys = {"k1", "k2"},
                       !.ids = {L1Base + 1, L2Base + 1, L2Base + 2, MissingId},
                       !.superseded = {NoId, L2Base + 1, L2Base + 2}]

NextDeprecate ==
    \/ UpsertEvent(DeprecateInputs)
    \/ PromoteToL2(DeprecateInputs)
    \/ DeprecateMemory(DeprecateInputs)

SpecDeprecate == Init /\ [][NextDeprecate]_vars

OfTenant(rows, id, tenant_id) == \E r \in rows : r.id = id /\ r.tenant_id = tenant_id

(* C13: deprecate_memory(scope, id) on an L1 row of the tenant sets exactly
   that row's status to deprecated; else on an L2 node of the tenant it sets
   exactly that node's status to deprecated and, when superseded_by is given,
   the supersedes_id of the node of that id to id; nothing else changes.  An
   id of neither tier of the tenant gets NOT_FOUND and changes nothing. *)
C13_DeprecateExactlyOne ==
    [][last'.op = "deprecate_memory" =>
          LET id == last'.args.memory_id
              by == last'.args.superseded_by
              tenant_id == last'.scope.tenant_id
          IN  IF OfTenant(memory_l1, id, tenant_id)
              THEN /\ last'.result = [status |-> "ok", id |-> id, layer |-> "L1",
                                      action |-> "deprecated"]
                   /\ memory_l1' = {[r EXCEPT !.status = IF r.id = id THEN "deprecated"
                                                         ELSE @] : r \in memory_l1}
                   /\ UNCHANGED <<memory_l0, memory_l1_fts, memory_l2_nodes, memory_l2_fts,
                                  memory_artifacts, memory_l2_edges, tombstones,
                                  idempotency>>
              ELSE IF OfTenant(memory_l2_nodes, id, tenant_id)
              THEN /\ last'.result = [status |-> "ok", id |-> id, layer |-> "L2",
                                      action |-> "deprecated"]
                   /\ memory_l2_nodes' =
                        {[r EXCEPT !.status = IF r.id = id THEN "deprecated" ELSE @,
                                   !.supersedes_id = IF by # NoId /\ r.id = by THEN id
                                                     ELSE @] : r \in memory_l2_nodes}
                   /\ UNCHANGED <<memory_l0, memory_l1, memory_l1_fts, memory_l2_fts,
                                  memory_artifacts, memory_l2_edges, tombstones,
                                  idempotency>>
              ELSE /\ IsNotFound(last'.result)
                   /\ UNCHANGED tables]_vars

(* A node was deprecated in favour of another, which stays active and now
   points back at it. *)
C13_Witness ==
    /\ last.op = "deprecate_memory"
    /\ last.result.status = "ok"
    /\ last.args.superseded_by # NoId
    /\ \E r \in memory_l2_nodes :
          /\ r.id = last.args.superseded_by /\ r.id # last.args.memory_id
          /\ r.status = "active" /\ r.supersedes_id = last.args.memory_id
    /\ \E r \in memory_l2_nodes : r.id = last.args.memory_id /\ r.status = "deprecated"

----------------------------------------------------------------------------
(* Tombstones: C14.  Selectors that differ in the order of their keys only,
   two workspaces, the clock moving between calls, and every operation that
   writes to the store. *)

TombInputs ==
    [BaseInputs EXCEPT !.scopes = {ScopeS1, ScopeW2},
                       !.selectors = {SelectorAll, SelectorUserUntil, SelectorUntilUser},
                       !.ids = {L1Base + 1, L2Base + 1}]

NextTomb ==
    \/ ForgetMemory(TombInputs)
    \/ UpsertEvent(BaseInputs)
    \/ CommitEpisode(BaseInputs)
    \/ PromoteToL2(BaseInputs)
    \/ LinkMemories(BaseInputs)
    \/ DeprecateMemory(TombInputs)
    \/ GcSweep(BaseInputs)
    \/ GcCompact(BaseInputs)
    \/ Tick(BaseInputs)

SpecTomb == Init /\ [][NextTomb]_vars

(* The tombstones of a scope's workspace for a selector: those whose hash is
   the set of the selector's key/value pairs. *)
TombstonesOf(rows, scope, selector) ==
    {t \in rows : /\ t.tenant_id = scope.tenant_id
                  /\ t.workspace_id = scope.workspace_id
                  /\ t.selector_hash = {selector[i] : i \in DOMAIN selector}}

(* C14: after forget_memory(scope, selector) exactly one tombstone of the
   workspace carries the hash of the selector's key/value pairs, whatever
   their order, and the call returns that hash; a repeated forget adds no row
   and does not fail; no step of any operation removes a tombstone. *)
C14_OneTombstonePerSelector ==
    [][/\ tombstones \subseteq tombstones'
       /\ last'.op = "forget_memory" =>
             /\ last'.result.status = "ok"
             /\ Cardinality(TombstonesOf(tombstones', last'.scope,
                                         last'.args.selector)) = 1
             /\ \A t \in TombstonesOf(tombstones', last'.scope, last'.args.selector) :
                    last'.result.tombstone_hash = t.selector_hash
             /\ TombstonesOf(tombstones, last'.scope, last'.args.selector) # {}
                    => tombstones' = tombstones]_vars

(* A selector was forgotten again later, its keys in the other order: the
   tombstone of the first call is the only one of the workspace. *)
C14_Witness ==
    /\ last.op = "forget_memory"
    /\ last.args.selector = SelectorUntilUser
    /\ now > 0
    /\ \E t \in tombstones :
          /\ t.created_at < now
          /\ t.selector_hash = last.result.tombstone_hash
          /\ TombstonesOf(tombstones, last.scope, SelectorUserUntil) = {t}

----------------------------------------------------------------------------
(* forget_memory's deletions: C15, C16.  Events and nodes of two users and
   two workspaces written before and after the clock moves, and selectors
   with a user, a time bound, both, an empty user and nothing (an empty user
   and no member at all select the same rows). *)

ForgetInputs ==
    [BaseInputs EXCEPT !.scopes = {ScopeS1, ScopeTask, ScopeW2},
                       !.keys = {"k1", "k2"},
                       !.selectors = {SelectorUser, SelectorFrom,
                                      SelectorUserUntil, SelectorNoUser}]

ForgetScopes == [ForgetInputs EXCEPT !.scopes = {ScopeS1}]

NextForget ==
    \/ UpsertEvent(ForgetInputs)
    \/ ForgetMemory(ForgetScopes)
    \/ Tick(ForgetInputs)

SpecForget == Init /\ [][NextForget]_vars

ForgetL2Inputs ==
    [BaseInputs EXCEPT !.scopes = {ScopeS1, ScopeW2},
                       !.keys = {"k1", "k2"},
                       !.selectors = {SelectorAll, SelectorUser, SelectorFrom}]

ForgetL2Scopes == [ForgetL2Inputs EXCEPT !.scopes = {ScopeS1}]

ForgetL2Events ==
    [ForgetL2Inputs EXCEPT !.scopes = {ScopeS1}, !.keys = {"k3"}, !.distill = {FALSE}]

NextForgetL2 ==
    \/ UpsertEvent(ForgetL2Events)
    \/ PromoteToL2(ForgetL2Inputs)
    \/ ForgetMemory(ForgetL2Scopes)
    \/ Tick(ForgetL2Inputs)

SpecForgetL2 == Init /\ [][NextForgetL2]_vars

(* The step is a call of forget_memory (the clock does not move in it). *)
ForgetStep == last'.op = "forget_memory" /\ now' = now

InWorkspace(r, scope) ==
    r.tenant_id = scope.tenant_id /\ r.workspace_id = scope.workspace_id

(* The row's created_at lies inside the time bounds the selector gives. *)
InTimeBounds(r, selector) ==
    /\ SelectorHas(selector, "start_time") =>
           r.created_at >= SelectorGet(selector, "start_time")
    /\ SelectorHas(selector, "end_time") =>
           r.created_at <= SelectorGet(selector, "end_time")

(* C15: forget_memory deletes exactly the L1 rows of the scope's tenant and
   workspace that satisfy every field the selector gives (user_id equality,
   created_at >= start_time, created_at <= end_time), also when a user and a
   time bound come together; every other L1 row stays as it was, and
   deleted_l1 is the number of rows removed. *)
C15_ForgetDeletesMatchingL1 ==
    [][ForgetStep =>
          LET selector == last'.args.selector
              doomed == {r \in memory_l1 :
                            /\ InWorkspace(r, last'.scope)
                            /\ SelectorHas(selector, "user_id") =>
                                   r.user_id = SelectorGet(selector, "user_id")
                            /\ InTimeBounds(r, selector)}
          IN  /\ memory_l1' = memory_l1 \ doomed
              /\ last'.result.deleted_l1 = Cardinality(doomed)]_vars

(* A selector with a user and an end time removed that user's earlier row
   and left the same user's later row of the workspace. *)
C15_Witness ==
    /\ last.op = "forget_memory"
    /\ last.args.selector = SelectorUserUntil
    /\ last.result.deleted_l1 = 1
    /\ \E r \in memory_l1 : /\ InWorkspace(r, last.scope)
                            /\ r.user_id = "u1"
                            /\ r.created_at > 0

(* C16: with a user_id in the selector forget_memory changes no L0 row and no
   L2 node; with a time bound and no user_id it deletes no L0 row and
   tombstones exactly the workspace's L2 nodes inside the bounds; with none of
   the three it deletes every L0 row of the workspace and tombstones every L2
   node of it.  No L2 row is removed, and deleted_l0 and tombstoned_l2 are
   the numbers of rows affected. *)
C16_ForgetL0AndL2BySelector ==
    [][ForgetStep =>
          LET selector == last'.args.selector
              by_user == SelectorHas(selector, "user_id")
              by_time == \/ SelectorHas(selector, "start_time")
                         \/ SelectorHas(selector, "end_time")
              gone_l0 == IF by_user \/ by_time THEN {}
                         ELSE {r \in memory_l0 : InWorkspace(r, last'.scope)}
              hit_l2 == IF by_user THEN {}
                        ELSE {r \in memory_l2_nodes :
                                 /\ InWorkspace(r, last'.scope)
                                 /\ InTimeBounds(r, selector)}
          IN  /\ memory_l0' = memory_l0 \ gone_l0
              /\ last'.result.deleted_l0 = Cardinality(gone_l0)
              /\ memory_l2_nodes' =
                     {IF r \in hit_l2 THEN [r EXCEPT !.status = "tombstoned"] ELSE r :
                         r \in memory_l2_nodes}
              /\ last'.result.tombstoned_l2 = Cardinality(hit_l2)
              /\ {r.id : r \in memory_l2_nodes'} = {r.id : r \in memory_l2_nodes}]_vars

(* A selector with a start time only tombstoned the later node and left the
   earlier node and the event of the workspace. *)
C16_Witness ==
    /\ last.op = "forget_memory"
    /\ last.args.selector = SelectorFrom
    /\ last.result.tombstoned_l2 = 1
    /\ last.result.deleted_l0 = 0
    /\ \E r \in memory_l2_nodes : InWorkspace(r, last.scope) /\ r.status = "active"
    /\ \E r \in memory_l0 : InWorkspace(r, last.scope)

----------------------------------------------------------------------------
(* gc_sweep: C17.  Events written at different hours, the
   clock moving by one hour and by a whole TTL, so that a sweep meets rows
   that expired, rows that expire at the very hour of the call and rows that
   are still fresh. *)

SweepInputs ==
    [BaseInputs EXCEPT !.keys = {"k1", "k2"}, !.ticks = {1, TTL_HOURS}]

NextSweep ==
    \/ UpsertEvent(SweepInputs)
    \/ GcSweep(SweepInputs)
    \/ Tick(SweepInputs)

SpecSweep == Init /\ [][NextSweep]_vars

(* C17: gc_sweep removes exactly the L0 rows whose expires_at is earlier than
   the time of the call and returns their number; rows with expires_at >= now
   stay, and no other table changes.  A row written by upsert_event expires
   TTL_HOURS after its creation, so a swept row is more than TTL_HOURS old. *)
C17_SweepRemovesExpiredOnly ==
    [][/\ (last'.op = "gc_sweep" /\ now' = now) =>
              /\ memory_l0' = {r \in memory_l0 : r.expires_at >= now}
              /\ last'.result.status = "ok"
              /\ last'.result.deleted_l0 = Cardinality(memory_l0 \ memory_l0')
              /\ \A r \in memory_l0 \ memory_l0' : now - (r.expires_at - TTL_HOURS) > TTL_HOURS
              /\ UNCHANGED <<memory_l1, memory_l1_fts, memory_l2_nodes, memory_l2_fts,
                             memory_artifacts, memory_l2_edges, tombstones, idempotency>>
       /\ last'.op = "upsert_event" =>
              \A r \in memory_l0' \ memory_l0 : r.expires_at = now + TTL_HOURS]_vars

(* A sweep removed an expired event and left one that expires at the hour of
   the call. *)
C17_Witness ==
    /\ last.op = "gc_sweep"
    /\ last.result.deleted_l0 = 1
    /\ \E r \in memory_l0 : r.expires_at = now
    /\ memory_l1 # {}

----------------------------------------------------------------------------
(* gc_compact: C18.  Observations of two repositories and two workspaces
   written on two days, beside committed episodes and deprecated rows,
   compacted for one workspace, again and again. *)

CompactInputs ==
    [BaseInputs EXCEPT !.scopes = {ScopeS1, ScopeS2, ScopeW2}, !.keys = {"k1", "k2"},
                       !.ids = {L1Base + 1, L1Base + 2}]

CompactScopes == [CompactInputs EXCEPT !.scopes = {ScopeS1}]

NextCompact ==
    \/ UpsertEvent(CompactInputs)
    \/ CommitEpisode(CompactScopes)
    \/ DeprecateMemory(CompactScopes)
    \/ GcCompact(CompactScopes)
    \/ Tick(CompactInputs)

SpecCompact == Init /\ [][NextCompact]_vars

(* The active Observations of the scope's tenant and workspace. *)
ActiveObservations(rows, scope) ==
    {r \in rows : /\ r.tenant_id = scope.tenant_id
                  /\ r.workspace_id = scope.workspace_id
                  /\ r.type = "Observation" /\ r.status = "active"}

(* (day, repo_id, module) of a row, the day being the whole days in its
   created_at. *)
BucketOf(r) == <<r.created_at \div HoursPerDay, r.repo_id, r.module>>

(* C18: gc_compact(scope) groups the active Observations of the scope's
   tenant and workspace by (day, repo_id, module); for every group of N >= 2
   rows exactly one new active EpisodeSummary appears (confidence 0.8,
   evidence_count N, confirmation_count 1, the group's repo_id and module) and
   the N rows become archived; every other row stays as it was; the call
   returns the number of archived rows and the number of such groups. *)
C18_CompactGroupsOfTwoOrMore ==
    [][(last'.op = "gc_compact" /\ now' = now) =>
          LET obs == ActiveObservations(memory_l1, last'.scope)
              members(g) == {r \in obs : BucketOf(r) = g}
              big == {g \in {BucketOf(r) : r \in obs} : Cardinality(members(g)) >= 2}
              sources == UNION {members(g) : g \in big}
              created == {r \in memory_l1' : r.id \notin {x.id : x \in memory_l1}}
              SummaryOf(e, g) ==
                  /\ e.type = "EpisodeSummary" /\ e.status = "active"
                  /\ e.tenant_id = last'.scope.tenant_id
                  /\ e.workspace_id = last'.scope.workspace_id
                  /\ e.repo_id = g[2] /\ e.module = g[3]
                  /\ e.confidence = 8
                  /\ e.evidence_count = Cardinality(members(g))
                  /\ e.confirmation_count = 1
          IN  /\ memory_l1' \ created =
                     {IF r \in sources THEN [r EXCEPT !.status = "archived"] ELSE r :
                         r \in memory_l1}
              /\ Cardinality(created) = Cardinality(big)
              /\ \A g \in big : \E e \in created : SummaryOf(e, g)
              /\ \A e \in created : \E g \in big : SummaryOf(e, g)
              /\ last'.result.status = "ok"
              /\ last'.result.compacted_observations = Cardinality(sources)
              /\ last'.result.episodes_created = Cardinality(big)]_vars

(* A compaction archived two Observations of one day under one summary. *)
C18_Witness ==
    /\ last.op = "gc_compact"
    /\ last.result.episodes_created = 1
    /\ last.result.compacted_observations = 2
    /\ Cardinality({r \in memory_l1 : r.status = "archived"}) = 2
    /\ \E e \in memory_l1 : e.type = "EpisodeSummary" /\ e.evidence_count = 2

(* A compaction met two Observations of the same repository and module
   written on different days and compacted nothing. *)
C18_SingletonsWitness ==
    /\ last.op = "gc_compact"
    /\ last.result.episodes_created = 0
    /\ \E a, b \in ActiveObservations(memory_l1, last.scope) :
          /\ a.id # b.id
          /\ a.repo_id = b.repo_id /\ a.module = b.module

----------------------------------------------------------------------------
(* Packaging under a budget: C19.  Observations and nodes with an artifact
   that share a word, links between the nodes, and searches and expansions
   with budgets that hold no item, one item, or all of them exactly. *)

BudgetOne == IndexCost + 7
BudgetL1 == IndexCost + DetailCost + 10
BudgetBoth == 2 * (IndexCost + DetailCost) + ArtifactCost

PackageInputs ==
    [BaseInputs EXCEPT !.keys = {"k1", "k2", "k3"}, !.drafts = {DraftLeak},
                       !.queries = {"leak"}, !.tops = {1, 2},
                       !.views = {"index", "evidence"},
                       !.budgets = {BudgetOne, BudgetL1, BudgetBoth},
                       !.pairs = {<<L2Base + 1, L2Base + 2>>, <<L2Base + 1, L2Base + 1>>},
                       !.l2ids = {L2Base + 1}, !.hops = {1}]

NextPackage ==
    \/ UpsertEvent(PackageInputs)
    \/ PromoteToL2(PackageInputs)
    \/ LinkMemories(PackageInputs)
    \/ SearchMemory(PackageInputs)
    \/ ExpandMemory(PackageInputs)

SpecPackage == Init /\ [][NextPackage]_vars

RowById(id) ==
    IF \E r \in memory_l1 : r.id = id
    THEN CHOOSE r \in memory_l1 : r.id = id
    ELSE CHOOSE r \in memory_l2_nodes : r.id = id

(* The cost of the first n rows of the ranked list of the last call. *)
RECURSIVE CostOfFirst(_)
CostOfFirst(n) ==
    IF n = 0 THEN 0
    ELSE CostOfFirst(n - 1) + ItemCost(Store, RowById(last.args.rows[n]), last.args.view)

(* C19: search_memory returns at most top_k items; the items of search_memory
   and expand_memory are the longest prefix of the ranked list whose summed
   cost is within the budget (packaging stops at the first item that does not
   fit); truncated is true, with reason TOKEN_BUDGET, exactly when an item was
   left out; remaining_budget is the budget less the cost used. *)
C19_BudgetPrefix ==
    last.op \in {"search_memory", "expand_memory"} =>
        LET items == last.result.items
            ranked == last.args.rows
            n == Len(items)
            truncation == last.result.truncation
        IN  /\ last.op = "search_memory" => n <= last.args.top_k
            /\ n <= Len(ranked)
            /\ \A i \in 1..n : items[i].id = ranked[i]
            /\ CostOfFirst(n) <= last.args.budget
            /\ n < Len(ranked) => CostOfFirst(n + 1) > last.args.budget
            /\ truncation.truncated <=> n < Len(ranked)
            /\ "reason" \in DOMAIN truncation =>
                   truncation.reason = IF truncation.truncated THEN "TOKEN_BUDGET"
                                       ELSE None
            /\ truncation.truncated => "reason" \in DOMAIN truncation
            /\ truncation.remaining_budget = last.args.budget - CostOfFirst(n)

(* A search whose first item alone exceeded the budget returned no item and
   signalled truncation, though the second item would have fitted. *)
C19_Witness ==
    /\ last.op = "search_memory"
    /\ Len(last.args.rows) = 2
    /\ last.result.items = <<>>
    /\ last.result.truncation.truncated
    /\ ItemCost(Store, RowById(last.args.rows[2]), last.args.view) <= last.args.budget

(* An expansion kept its first node and left out the second. *)
C19_ExpandWitness ==
    /\ last.op = "expand_memory"
    /\ Len(last.args.rows) = 2
    /\ Len(last.result.items) = 1
    /\ last.result.truncation.truncated

----------------------------------------------------------------------------
(* Scope and filters of a search: C20.  Rows of two tenants, two workspaces,
   two repositories and of no repository, active and deprecated, searched
   with and without a repository and with type and status filters (a filter
   with an empty type selects as no filter does). *)

SearchInputs ==
    [BaseInputs EXCEPT !.scopes = {ScopeS1, ScopeS2, ScopeR2, ScopeT2, ScopeW2},
                       !.keys = {"k1", "k2"}, !.drafts = {DraftLeak},
                       !.queries = {"leak"}, !.views = {"index"},
                       !.filters = {FilterType, FilterTypeStatus, FilterEmptyType},
                       !.ids = {L1Base + 1, L2Base + 1}]

SearchScopes == [SearchInputs EXCEPT !.scopes = {ScopeS1, ScopeBare}]

SearchEvents == [SearchInputs EXCEPT !.scopes = {ScopeS2, ScopeR2, ScopeT2, ScopeW2}]

SearchDrafts == [SearchInputs EXCEPT !.scopes = {ScopeS1, ScopeR2}]

NextSearch ==
    \/ UpsertEvent(SearchEvents)
    \/ PromoteToL2(SearchDrafts)
    \/ DeprecateMemory(SearchScopes)
    \/ SearchMemory(SearchScopes)

SpecSearch == Init /\ [][NextSearch]_vars

(* C20: every item search_memory returns is a row of memory_l1 or
   memory_l2_nodes with the scope's tenant_id and workspace_id; with a repo_id
   in the scope the row's repo_id is that one or null; with a type or a
   status in the filters the row's type or status is the one given. *)
C20_SearchStaysInScope ==
    last.op = "search_memory" =>
        \A i \in DOMAIN last.result.items :
            LET id == last.result.items[i].id
                scope == last.scope
                filters == last.args.filters
            IN  /\ id \in {r.id : r \in memory_l1} \cup {r.id : r \in memory_l2_nodes}
                /\ RowById(id).tenant_id = scope.tenant_id
                /\ RowById(id).workspace_id = scope.workspace_id
                /\ scope.repo_id # None => RowById(id).repo_id \in {scope.repo_id, None}
                /\ \A j \in DOMAIN filters :
                       /\ (filters[j][1] = "type" /\ filters[j][2] # "")
                              => RowById(id).type = filters[j][2]
                       /\ (filters[j][1] = "status" /\ filters[j][2] # "")
                              => RowById(id).status = filters[j][2]

(* A search within a repository returned a row of no repository while a row
   of another repository of the workspace carries the word too. *)
C20_Witness ==
    /\ last.op = "search_memory"
    /\ last.scope.repo_id # None
    /\ \E i \in DOMAIN last.result.items :
          RowById(last.result.items[i].id).repo_id = None
    /\ \E r \in memory_l1 : /\ r.tenant_id = last.scope.tenant_id
                            /\ r.workspace_id = last.scope.workspace_id
                            /\ r.repo_id \notin {last.scope.repo_id, None}
                            /\ "leak" \in TitleTokens(r.title)

(* A search with a type and a status filter returned a deprecated node. *)
C20_FilterWitness ==
    /\ last.op = "search_memory"
    /\ last.args.filters = FilterTypeStatus
    /\ last.result.items # <<>>

----------------------------------------------------------------------------
(* Isolation of tenants and workspaces: C21.  Nodes promoted in two tenants
   and two workspaces; links, expansions and deprecations called from one of
   them with any node id. *)

IsolationInputs ==
    [BaseInputs EXCEPT !.scopes = {ScopeS1, ScopeT2, ScopeW2}, !.keys = {"k1", "k2"},
                       !.ids = L2Ids, !.superseded = {NoId} \cup L2Ids,
                       !.pairs = L2Ids \X L2Ids]

IsolationCaller == [IsolationInputs EXCEPT !.scopes = {ScopeS1}]

NextIsolation ==
    \/ PromoteToL2(IsolationInputs)
    \/ LinkMemories(IsolationCaller)
    \/ ExpandMemory(IsolationCaller)
    \/ DeprecateMemory(IsolationCaller)

SpecIsolation == Init /\ [][NextIsolation]_vars

(* The row belongs to the scope's tenant and workspace. *)
Belongs(r, scope) ==
    r.tenant_id = scope.tenant_id /\ r.workspace_id = scope.workspace_id

(* C21: no operation called with a scope creates a reference to, changes or
   returns a row of another (tenant_id, workspace_id): the endpoints of every
   edge belong to the edge's tenant and workspace, every item expand_memory
   returns is a node of the scope, and deprecate_memory changes only rows of
   the scope. *)
C21_ScopeIsolation ==
    /\ [](\A e \in memory_l2_edges :
             \A r \in memory_l2_nodes : r.id \in {e.from_id, e.to_id} => Belongs(r, e))
    /\ [](last.op = "expand_memory" =>
             \A i \in DOMAIN last.result.items :
                 \A r \in memory_l2_nodes :
                     r.id = last.result.items[i].id => Belongs(r, last.scope))
    /\ [][last'.op = "deprecate_memory" =>
             /\ \A r \in memory_l2_nodes : ~Belongs(r, last'.scope) => r \in memory_l2_nodes'
             /\ \A r \in memory_l1 : ~Belongs(r, last'.scope) => r \in memory_l1']_vars

----------------------------------------------------------------------------
(* Snippets of the evidence view: C22.  Nodes promoted with an artifact that
   is a readable file, a file that is not there, and a forbidden URL, then
   searched and expanded in every view. *)

EvidenceInputs ==
    [BaseInputs EXCEPT !.keys = {"k1", "k2"},
                       !.artifacts = {ArtifactFile, ArtifactGone, ArtifactUrl},
                       !.views = Views, !.pairs = L2Ids \X L2Ids, !.l2ids = L2Ids]

NextEvidence ==
    \/ PromoteToL2(EvidenceInputs)
    \/ LinkMemories(EvidenceInputs)
    \/ SearchMemory(EvidenceInputs)
    \/ ExpandMemory(EvidenceInputs)

SpecEvidence == Init /\ [][NextEvidence]_vars

(* The artifact entries of the items of the last search or expansion. *)
ReturnedArtifacts ==
    IF last.op \in {"search_memory", "expand_memory"}
    THEN UNION {IF "artifacts" \in DOMAIN last.result.items[i]
                THEN last.result.items[i].artifacts ELSE {} :
                    i \in DOMAIN last.result.items}
    ELSE {}

(* C22: an artifact entry of the evidence view has a snippet exactly when its
   snippet_policy is "allowed", its kind is "file" and its locator is a file
   that exists and can be read; no item of another view has artifact
   entries, and an entry with the policy "forbidden" has no snippet. *)
C22_SnippetOnlyForReadableFiles ==
    /\ \A e \in ReturnedArtifacts :
          "snippet" \in DOMAIN e <=>
              /\ e.snippet_policy = "allowed"
              /\ e.kind = "file"
              /\ e.locator \in ReadableFiles
    /\ (last.op \in {"search_memory", "expand_memory"} /\ last.args.view # "evidence")
           => ReturnedArtifacts = {}

(* The part of C22 that holds: a forbidden artifact never has a snippet, a
   readable file of an allowed artifact always has its content as snippet, and
   only the evidence view has artifact entries. *)
C22_ForbiddenHasNoSnippet ==
    /\ \A e \in ReturnedArtifacts :
          /\ e.snippet_policy = "forbidden" => "snippet" \notin DOMAIN e
          /\ (e.snippet_policy = "allowed" /\ e.kind = "file"
                  /\ e.locator \in ReadableFiles)
                 => ("snippet" \in DOMAIN e /\ e.snippet = FileContent(e.locator))
    /\ (last.op \in {"search_memory", "expand_memory"} /\ last.args.view # "evidence")
           => ReturnedArtifacts = {}

----------------------------------------------------------------------------
(* The counters of a row: C23, over every operation of SpecAtomic.
   confidence is in tenths, so [0, 1] is 0..10. *)

CountersInRange(r) ==
    /\ r.confidence >= 0 /\ r.confidence <= 10
    /\ r.evidence_count >= 0
    /\ r.confirmation_count >= 1

(* C23: in every reachable state every L1 row and every L2 node has
   confidence in [0, 1], evidence_count >= 0 and confirmation_count >= 1. *)
C23_CountersInRange ==
    /\ \A r \in memory_l1 : CountersInRange(r)
    /\ \A r \in memory_l2_nodes : CountersInRange(r)

(* Two Observations were compacted into a summary of confidence 0.8 and
   evidence_count 2. *)
C23_Witness ==
    /\ last.op = "gc_compact"
    /\ \E r \in memory_l1 : /\ r.type = "EpisodeSummary"
                            /\ r.confidence = 8 /\ r.evidence_count = 2
    /\ \E r \in memory_l1 : r.status = "archived"

(* An episode was committed twice: its confirmation_count is 2 and its
   evidence_count 0. *)
C23_ConfirmedTwiceWitness ==
    \E r \in memory_l1 : r.confirmation_count = 2 /\ r.evidence_count = 0

----------------------------------------------------------------------------
(* The life of an L2 node: C24, over every operation of SpecAtomic. *)

(* C24: a step adds a row to memory_l2_nodes only if it is a promote_to_l2;
   no step removes one; an existing node changes in its status and its
   supersedes_id at most, its type, title, claims and version staying as
   promoted. *)
C24_L2OnlyGrows ==
    [][/\ \A r \in memory_l2_nodes :
             \E q \in memory_l2_nodes' :
                 /\ q.id = r.id
                 /\ [q EXCEPT !.status = r.status, !.supersedes_id = r.supersedes_id] = r
       /\ (\E q \in memory_l2_nodes' : q.id \notin {r.id : r \in memory_l2_nodes})
              => last'.op = "promote_to_l2"]_vars

(* A node that carries a supersedes_id was tombstoned by a forget: it is
   still there, as promoted but for its status and supersedes_id. *)
C24_Witness ==
    /\ last.op = "forget_memory"
    /\ \E r \in memory_l2_nodes :
          /\ r.status = "tombstoned" /\ r.supersedes_id # NoId
          /\ r.version = 1 /\ r.title = "Fact"

----------------------------------------------------------------------------
(* The supersedes_id relation: C25, C26. *)

(* The ids reached from id by following supersedes_id up to n times. *)
RECURSIVE SupersededChain(_, _)
SupersededChain(id, n) ==
    IF n = 0 THEN {}
    ELSE LET next == {r.supersedes_id : r \in {x \in memory_l2_nodes : x.id = id}} \ {NoId}
         IN  next \cup UNION {SupersededChain(x, n - 1) : x \in next}

(* C25: the supersedes_id relation over the L2 nodes has no cycle: no node
   reaches itself by following supersedes_id, in one step or through a
   chain. *)
C25_SupersedesAcyclic ==
    \A r \in memory_l2_nodes :
        r.id \notin SupersededChain(r.id, Cardinality(memory_l2_nodes))

(* C26: every supersedes_id that is set is the id of an existing L2 node of
   the same tenant as the node that carries it. *)
C26_SupersedesSameTenant ==
    \A r \in memory_l2_nodes :
        r.supersedes_id # NoId =>
            \E q \in memory_l2_nodes : q.id = r.supersedes_id /\ q.tenant_id = r.tenant_id

(* The part of C26 that holds: a supersedes_id that is set names an existing
   L2 node. *)
C26_SupersedesExists ==
    \A r \in memory_l2_nodes :
        r.supersedes_id # NoId => \E q \in memory_l2_nodes : q.id = r.supersedes_id

----------------------------------------------------------------------------
(* Idempotency records of failed calls: C27, over SpecIdem. *)

HasRecord(rows, tenant_id, key) ==
    \E r \in rows : r.tenant_id = tenant_id /\ r.key = key

(* C27: a promote_to_l2 rejected by validation and a link_memories that
   returned NOT_FOUND write no idempotency record, and no record ever holds an
   error result; so a promote_to_l2 with a valid draft, or a link_memories
   between existing nodes, under a key that has no record, executes: it
   returns ok and its node or edge is written. *)
C27_NoRecordOfFailure ==
    /\ [](\A r \in idempotency : <<"status", "error">> \notin r.result_json)
    /\ [][/\ (last'.op = "promote_to_l2" /\ PromotionRejected(last'.result))
                 => idempotency' = idempotency
          /\ (last'.op = "link_memories" /\ IsNotFound(last'.result))
                 => idempotency' = idempotency
          /\ (/\ last'.op = "promote_to_l2"
              /\ last'.args.draft.type \in L2Types /\ last'.args.draft.claims # <<>>
              /\ ~HasRecord(idempotency, last'.scope.tenant_id, last'.key))
                 => /\ last'.result.status = "ok"
                    /\ last'.result.id \notin {r.id : r \in memory_l2_nodes}
                    /\ last'.result.id \in {r.id : r \in memory_l2_nodes'}
                    /\ HasRecord(idempotency', last'.scope.tenant_id, last'.key)
          /\ (/\ last'.op = "link_memories" /\ last'.key # None
              /\ ~HasRecord(idempotency, last'.scope.tenant_id, last'.key)
              /\ {last'.args.from_id, last'.args.to_id}
                     \subseteq {r.id : r \in memory_l2_nodes})
                 => /\ last'.result.status = "ok"
                    /\ \E e \in memory_l2_edges' :
                          /\ e.from_id = last'.args.from_id
                          /\ e.to_id = last'.args.to_id
                          /\ e.tenant_id = last'.scope.tenant_id]_vars

(* A keyed link_memories returned NOT_FOUND with nodes in the store, and its
   key has no record. *)
C27_Witness ==
    /\ last.op = "link_memories" /\ last.key # None
    /\ IsNotFound(last.result)
    /\ memory_l2_nodes # {}
    /\ ~HasRecord(idempotency, last.scope.tenant_id, last.key)

(* A promote_to_l2 was rejected under a key that has no record. *)
C27_RejectedWitness ==
    /\ last.op = "promote_to_l2" /\ PromotionRejected(last.result)
    /\ ~HasRecord(idempotency, last.scope.tenant_id, last.key)

----------------------------------------------------------------------------
(* The command line: each command calls its operation and prints one JSON
   object.  C28. *)

(* click.echo(json.dumps({"status": "ok", "data": result})) *)
EchoOk(result) == [status |-> "ok", data |-> result]

(* except Exception as e: click.echo(json.dumps({"status": "error",
   "message": str(e)})) *)
EchoException == [status |-> "error", message |-> "str(e)"]

event_upsert(result) == IF result = Exception THEN EchoException ELSE EchoOk(result)

link(result) == IF result = Exception THEN EchoException ELSE EchoOk(result)

promote(result) ==
    IF result = Exception THEN EchoException
    ELSE IF result.status = "ok" THEN EchoOk(result)
    ELSE result

deprecate(result) == IF result = Exception THEN EchoException ELSE EchoOk(result)

gc_compact_cmd(result) == IF result = Exception THEN EchoException ELSE EchoOk(result)

(* The line printed by the command that made the last call. *)
stdout ==
    CASE last.op = "upsert_event" -> event_upsert(last.result)
      [] last.op = "link_memories" -> link(last.result)
      [] last.op = "promote_to_l2" -> promote(last.result)
      [] last.op = "deprecate_memory" -> deprecate(last.result)
      [] last.op = "gc_compact" -> gc_compact_cmd(last.result)

CliOps == {"upsert_event", "link_memories", "promote_to_l2", "deprecate_memory",
           "gc_compact"}

CliInputs ==
    [BaseInputs EXCEPT !.faults = TRUE, !.keys = {"k1", "k2"},
                       !.drafts = {DraftFact, DraftNoClaims},
                       !.ids = {L1Base + 1, L2Base + 1, MissingId},
                       !.l2ids = {L2Base + 1, MissingId},
                       !.pairs = {L2Base + 1, MissingId} \X {L2Base + 1, MissingId}]

CliCompact == [CliInputs EXCEPT !.scopes = {ScopeS1, NoScope}]

NextCli ==
    \/ UpsertEvent(CliInputs)
    \/ PromoteToL2(CliInputs)
    \/ LinkMemories(CliInputs)
    \/ DeprecateMemory(CliInputs)
    \/ GcCompact(CliCompact)
    \/ Tick(CliInputs)

SpecCli == Init /\ [][NextCli]_vars

IsErrorResult(result) == "status" \in DOMAIN result /\ result.status = "error"

(* C28: the printed object has status ok, with the result as data, exactly
   when the operation returned without an error result and without raising;
   when the operation returned an error result the printed status is error,
   with the result's message and, if it has one, its error_code. *)
C28_CliReportsErrors ==
    last.op \in CliOps =>
        /\ stdout.status \in {"ok", "error"}
        /\ stdout.status = "ok" <=> ~IsFailure(last.result)
        /\ stdout.status = "ok" => stdout.data = last.result
        /\ IsErrorResult(last.result) =>
               /\ stdout.status = "error"
               /\ stdout.message = last.result.message
               /\ "error_code" \in DOMAIN last.result =>
                      /\ "error_code" \in DOMAIN stdout
                      /\ stdout.error_code = last.result.error_code

(* What does hold: promote prints an error result as it is, a raised
   exception is printed with status error, and every other result is printed
   as the data of a status ok object. *)
C28_CliAsCoded ==
    last.op \in CliOps =>
        /\ last.result = Exception => stdout.status = "error"
        /\ (last.op = "promote_to_l2" /\ IsErrorResult(last.result)) => stdout = last.result
        /\ (last.op # "promote_to_l2" /\ last.result # Exception) =>
               stdout = [status |-> "ok", data |-> last.result]

----------------------------------------------------------------------------
(* Replays of the governance operations: C29, over SpecForget.  forget_memory,
   deprecate_memory, gc_sweep and gc_compact take no idempotency key, so a
   replay is a call with the arguments of an earlier call; the tombstone of
   (tenant, workspace, selector hash) shows that forget_memory was called with
   the scope and selector before. *)

ForgetReplayed ==
    /\ last'.op = "forget_memory" /\ last' # last
    /\ TombstonesOf(tombstones, last'.scope, last'.args.selector) # {}

(* C29: a forget_memory called again with the scope and selector of an
   earlier call changes no table, even if matching rows were written in
   between. *)
C29_GovernanceReplayChangesNothing ==
    [][ForgetReplayed => UNCHANGED tables]_vars

(* What does hold of a replayed forget_memory: it deletes again, and the
   only thing that stays is the tombstone. *)
C29_ReplayKeepsTombstone ==
    [][ForgetReplayed =>
           /\ tombstones' = tombstones
           /\ idempotency' = idempotency
           /\ last'.key = None]_vars

----------------------------------------------------------------------------
(* The accelerator absent or failing: C30.  Each call finds it disabled,
   enabled, or enabled with its query raising. *)

AccelInputs ==
    [BaseInputs EXCEPT !.keys = {"k1", "k2"},
                       !.pairs = {<<L2Base + 1, L2Base + 2>>, <<L2Base + 2, L2Base + 1>>,
                                  <<L2Base + 1, MissingId>>},
                       !.l2ids = {L2Base + 1, L2Base + 2},
                       !.modes = {"disabled", "error", "enabled"}]

NextAccel ==
    \/ PromoteToL2(AccelInputs)
    \/ LinkMemories(AccelInputs)
    \/ ExpandMemory(AccelInputs)

SpecAccel == Init /\ [][NextAccel]_vars

AccelOff == {"disabled", "error"}

(* C30: with the accelerator disabled or its query raising, upsert_node and
   upsert_edge return False and leave the graph as it is and expand returns
   None; expand_memory then returns ok with the neighbours and paths of the
   edge table; a promote_to_l2 of a valid draft under a fresh key and a
   link_memories between existing nodes return ok and write their node or
   edge whatever the accelerator is; and no call raises. *)
C30_AcceleratorOffFallsBack ==
    /\ [](\A mode \in AccelOff :
            /\ ~GraphUpsertReturns(mode)
            /\ \A id \in L2Ids : GraphUpsertNode(graph_nodes, mode, id) = graph_nodes
            /\ \A a \in L2Ids, b \in L2Ids :
                   GraphUpsertEdge(graph_nodes, graph_edges, mode, a, b, RelatedTo)
                       = graph_edges
            /\ \A id \in L2Ids, hops \in 1..MaxHops :
                   GraphExpand(graph_nodes, graph_edges, mode, id, hops) = NoResult)
    /\ [](last.result # Exception)
    /\ []((last.op = "expand_memory" /\ last.args.mode \in AccelOff) =>
            LET fallback == FallbackExpand(Store, last.scope, last.args.seed_id,
                                           last.args.hops)
            IN  /\ last.result.status = "ok"
                /\ ItemIds(last.result) \ {last.args.seed_id} =
                       fallback.node_ids \ {last.args.seed_id}
                /\ last.result.paths = fallback.paths)
    /\ [][/\ (/\ last'.op = "promote_to_l2"
              /\ ~HasRecord(idempotency, last'.scope.tenant_id, last'.key))
                 => /\ last'.result.status = "ok"
                    /\ memory_l2_nodes' # memory_l2_nodes
                    /\ last'.result.id \in {r.id : r \in memory_l2_nodes'}
          /\ (/\ last'.op = "link_memories"
              /\ {last'.args.from_id, last'.args.to_id}
                     \subseteq {r.id : r \in memory_l2_nodes})
                 => /\ last'.result.status = "ok"
                    /\ \E e \in memory_l2_edges' :
                          e.from_id = last'.args.from_id /\ e.to_id = last'.args.to_id
          /\ last'.op = "expand_memory" => UNCHANGED tables]_vars

(* An expand_memory whose accelerator query raised returned a linked node,
   with the graph holding nodes of earlier promotions. *)
C30_Witness ==
    /\ last.op = "expand_memory" /\ last.args.mode = "error"
    /\ last.result.items # <<>>
    /\ graph_nodes # {}

(* A node was promoted and linked with the accelerator off: the edge table
   has an edge the graph has not. *)
C30_OffWhileWritingWitness ==
    /\ memory_l2_edges # {} /\ graph_edges = {}
    /\ last.op = "link_memories" /\ last.result.status = "ok"

----------------------------------------------------------------------------
(* Two processes calling with one key at the same time: C31.  Each process
   makes one call of upsert_event or commit_episode with key k1 in one of two
   tenants and tries it again when it failed. *)

RaceInputs ==
    [BaseInputs EXCEPT !.scopes = {ScopeS1, ScopeT2}, !.keys = {"k1"},
                       !.distill = BOOLEAN]

NextRace ==
    \/ ProcGate(RaceInputs)
    \/ ProcLookup(RaceInputs)
    \/ ProcBegin(RaceInputs)
    \/ ProcBusy(RaceInputs)
    \/ ProcFinish(RaceInputs)

SpecRace == Init /\ [][NextRace]_vars

(* The ids a stored result names. *)
RecordedIds(rows) ==
    {m[2] : m \in {x \in UNION {r.result_json : r \in rows} : x[1] \in {"id", "l1_id"}}}

Ended(p) == procs[p].pc # "done" /\ procs'[p].pc = "done"

(* C31: whatever the interleaving of the gate reads, lookups, writes and
   commits of two processes calling with the same (tenant, key), the
   idempotency table holds at most one record per (tenant, key) and every L0
   and L1 row is one that a record names; a call that ends with an exception
   leaves the tables as they were; a call that ends with a result ends with
   the committed result of its (tenant, key); and a call, first or retried,
   whose gate finds the record ends there with the recorded result. *)
C31_OneWinnerPerKey ==
    /\ [](/\ \A r1 \in idempotency, r2 \in idempotency :
               (r1.tenant_id = r2.tenant_id /\ r1.key = r2.key) => r1 = r2
          /\ {r.id : r \in memory_l0} \cup {r.id : r \in memory_l1}
                 \subseteq RecordedIds(idempotency)
          /\ BagCardinality(memory_l1_fts) = Cardinality(memory_l1))
    /\ [][\A p \in Procs :
            /\ (Ended(p) /\ procs'[p].result = Exception) => UNCHANGED tables
            /\ (Ended(p) /\ procs'[p].result # Exception) =>
                   procs'[p].result = check_idempotency(Store', procs'[p].scope.tenant_id,
                                                        procs'[p].key)
            /\ (/\ procs'[p] # procs[p]
                /\ procs[p].pc \in {"idle", "done"}
                /\ HasRecord(idempotency, procs'[p].scope.tenant_id, procs'[p].key))
                   => /\ procs'[p].pc = "done"
                      /\ procs'[p].result =
                             check_idempotency(Store, procs'[p].scope.tenant_id,
                                               procs'[p].key)
                      /\ UNCHANGED tables]_vars

(* Both processes passed the gate before either had committed; one committed,
   the other's record_idempotency raised and its writes were discarded; tried
   again, it returned the result of the one that committed. *)
C31_Witness ==
    /\ last.result = Exception
    /\ \E p \in Procs, q \in Procs :
          /\ p # q
          /\ procs[p].pc = "done" /\ procs[p].tries = 2
          /\ procs[q].pc = "done" /\ procs[q].tries = 1
          /\ procs[q].result # Exception
          /\ procs[p].result = procs[q].result
          /\ procs[p].op = procs[q].op
    /\ Cardinality(idempotency) = 1
    /\ Cardinality(memory_l0) + Cardinality(memory_l1) >= 1

(* A process ran out of busy_timeout while the other held the write lock. *)
C31_BusyWitness ==
    \E p \in Procs, q \in Procs :
        /\ procs[p].pc = "done" /\ procs[p].result = Exception /\ procs[p].tries = 1
        /\ procs[q].pc = "writing"
        /\ last.op = "init"

----------------------------------------------------------------------------
(* Repeated links: C32.  Two nodes, linked both ways in two workspaces of one tenant:
   under key k3 with weight 1, without a key with weight 1 or 2. *)

LinkInputs ==
    [BaseInputs EXCEPT !.scopes = {ScopeS1, ScopeW2}, !.keys = {"k1", "k2"},
                       !.linkkeys = {"k3"}, !.weights = {1},
                       !.pairs = {<<L2Base + 1, L2Base + 2>>, <<L2Base + 2, L2Base + 1>>}]

LinkAgain == [LinkInputs EXCEPT !.linkkeys = {None}, !.weights = {1, 2}]

LinkPromotes == [LinkInputs EXCEPT !.scopes = {ScopeS1}]

NextLink ==
    \/ PromoteToL2(LinkPromotes)
    \/ LinkMemories(LinkInputs)
    \/ LinkMemories(LinkAgain)

SpecLink == Init /\ [][NextLink]_vars

EdgesOfKey(edges, scope, args) ==
    {e \in edges : /\ e.tenant_id = scope.tenant_id
                   /\ e.workspace_id = scope.workspace_id
                   /\ e.from_id = args.from_id /\ e.rel = args.rel
                   /\ e.to_id = args.to_id}

LinkExecuted ==
    /\ last'.op = "link_memories" /\ last'.result.status = "ok"
    /\ last'.key = None \/ ~HasRecord(idempotency, last'.scope.tenant_id, last'.key)

(* C32: no two edges share (tenant_id, workspace_id, from_id, rel, to_id); a
   link_memories that executes (ok, and not a replay) leaves exactly one edge
   of its tuple, carrying its weight, and every other edge as it was, so the
   number of edges is unchanged when the tuple had an edge; a replay changes
   no edge. *)
C32_OneEdgePerTuple ==
    /\ [](\A e \in memory_l2_edges, f \in memory_l2_edges :
            (/\ e.tenant_id = f.tenant_id /\ e.workspace_id = f.workspace_id
             /\ e.from_id = f.from_id /\ e.rel = f.rel /\ e.to_id = f.to_id) => e = f)
    /\ [][/\ LinkExecuted =>
               LET was == EdgesOfKey(memory_l2_edges, last'.scope, last'.args)
                   is == EdgesOfKey(memory_l2_edges', last'.scope, last'.args)
               IN  /\ Cardinality(is) = 1
                   /\ \A e \in is : e.weight = last'.args.weight
                   /\ memory_l2_edges' \ is = memory_l2_edges \ was
                   /\ was # {} =>
                          Cardinality(memory_l2_edges') = Cardinality(memory_l2_edges)
          /\ (/\ last'.op = "link_memories" /\ last'.key # None
              /\ HasRecord(idempotency, last'.scope.tenant_id, last'.key))
                 => memory_l2_edges' = memory_l2_edges]_vars

(* The tuple was linked under the key with weight 1 and without a key with
   weight 2: the one edge of the tuple has weight 2. *)
C32_Witness ==
    /\ last.op = "link_memories" /\ last.key = None /\ last.result.status = "ok"
    /\ last.args.weight = 2
    /\ \E f \in firstCall :
          /\ f.op = "link_memories" /\ f.tenant_id = last.scope.tenant_id
          /\ f.result.from = last.args.from_id /\ f.result.to = last.args.to_id
    /\ \E e \in memory_l2_edges : e.weight = 2
    /\ Cardinality(memory_l2_edges) = 1

----------------------------------------------------------------------------
(* The order of the L2 statuses: C33, over SpecAtomic. *)

StatusRank(status) ==
    CASE status = "active" -> 0
      [] status = "deprecated" -> 1
      [] status = "tombstoned" -> 2

(* C33: in every step the status of every L2 node stays or moves forward
   along active -> deprecated -> tombstoned; a tombstoned node stays
   tombstoned. *)
C33_StatusOnlyForward ==
    [][\A r \in memory_l2_nodes : \A n \in memory_l2_nodes' :
          n.id = r.id => StatusRank(n.status) >= StatusRank(r.status)]_vars

(* What does hold: no step returns a deprecated or tombstoned node to active,
   and the only step that takes a node out of tombstoned is a
   deprecate_memory of that node, which makes it deprecated. *)
C33_NeverBackToActive ==
    [][\A r \in memory_l2_nodes : \A n \in memory_l2_nodes' :
          (n.id = r.id /\ StatusRank(n.status) < StatusRank(r.status)) =>
              /\ n.status = "deprecated"
              /\ last'.op = "deprecate_memory" /\ last'.args.memory_id = r.id]_vars

----------------------------------------------------------------------------
(* Two processes committing episodes of one session under different keys:
   C34. *)

EpisodeRaceInputs ==
    [BaseInputs EXCEPT !.keys = {"k1", "k2"}, !.ops = {"commit_episode"},
                       !.episodes = {Episode1, Episode2}]

NextEpisodeRace ==
    \/ ProcGate(EpisodeRaceInputs)
    \/ ProcLookup(EpisodeRaceInputs)
    \/ ProcBegin(EpisodeRaceInputs)
    \/ ProcBusy(EpisodeRaceInputs)
    \/ ProcFinish(EpisodeRaceInputs)

SpecEpisodeRace == Init /\ [][NextEpisodeRace]_vars

SessionEpisodes(rows) == {r \in rows : r.type = "EpisodeSummary" /\ r.session_id # None}

(* C34: no two EpisodeSummary rows share (tenant_id, workspace_id,
   session_id) with a session_id that is not null. *)
C34_OneEpisodePerSession ==
    \A r \in SessionEpisodes(memory_l1), n \in SessionEpisodes(memory_l1) :
        (/\ r.tenant_id = n.tenant_id /\ r.workspace_id = n.workspace_id
         /\ r.session_id = n.session_id) => r.id = n.id

----------------------------------------------------------------------------
(* Projection and rollback: C35.  Promotions and links that may fail after any
   of their statements, the accelerator enabled or not. *)

ProjectionInputs ==
    [BaseInputs EXCEPT !.faults = TRUE, !.keys = {"k1", "k2"},
                       !.modes = {"disabled", "enabled"},
                       !.pairs = {<<L2Base + 1, L2Base + 2>>, <<L2Base + 2, L2Base + 1>>,
                                  <<L2Base + 1, MissingId>>}]

NextProjection ==
    \/ PromoteToL2(ProjectionInputs)
    \/ LinkMemories(ProjectionInputs)

SpecProjection == Init /\ [][NextProjection]_vars

(* C35: every vertex of the accelerator is the id of a committed L2 node and
   every relationship of it is a committed edge. *)
C35_GraphWithinStore ==
    /\ graph_nodes \subseteq {r.id : r \in memory_l2_nodes}
    /\ \A g \in graph_edges :
          \E e \in memory_l2_edges :
              e.from_id = g.from /\ e.to_id = g.to /\ SafeRel(e.rel) = g.rel

(* What does hold: the accelerator holds only ids that a promote_to_l2 drew
   and relationships between them. *)
C35_GraphOfDrawnIds ==
    /\ graph_nodes \subseteq {L2Base + n : n \in 1..minted.l2}
    /\ \A g \in graph_edges : g.from \in graph_nodes /\ g.to \in graph_nodes

----------------------------------------------------------------------------
(* The seed in its own expansion: C36, over SpecGraph, whose links include
   the self-loop a -> a and the cycle a -> b -> a. *)

(* C36: expand_memory returns no item for the seed and no path triple whose
   target is the seed. *)
C36_SeedNeverReturned ==
    last.op = "expand_memory" =>
        /\ last.args.seed_id \notin ItemIds(last.result)
        /\ \A t \in last.result.paths : t.to # last.args.seed_id

(* What does hold of the fallback: only a self-loop of the seed brings the
   seed back; the second hop leaves out every edge that leads to the seed. *)
C36_OnlySelfLoopReturnsSeed ==
    (last.op = "expand_memory" /\ last.args.mode = "disabled") =>
        /\ \A t \in last.result.paths :
               t.to = last.args.seed_id => t.from = last.args.seed_id
        /\ last.args.seed_id \in ItemIds(last.result) =>
               \E e \in ScopeEdges(Store, last.scope) :
                   e.from_id = last.args.seed_id /\ e.to_id = last.args.seed_id

----------------------------------------------------------------------------
(* One key, several operations: C37.  upsert_event, commit_episode,
   promote_to_l2 and link_memories are called with key k1 in two workspaces of
   one tenant and in another tenant. *)

SharedKeyInputs ==
    [BaseInputs EXCEPT !.scopes = {ScopeS1, ScopeW2, ScopeT2},
                       !.linkkeys = {"k1"},
                       !.drafts = {DraftFact, DraftNoClaims},
                       !.l2ids = {L2Base + 1, MissingId},
                       !.pairs = {<<L2Base + 1, L2Base + 1>>, <<L2Base + 1, MissingId>>}]

NextSharedKey ==
    \/ UpsertEvent(SharedKeyInputs)
    \/ CommitEpisode(SharedKeyInputs)
    \/ PromoteToL2(SharedKeyInputs)
    \/ LinkMemories(SharedKeyInputs)

SpecSharedKey == Init /\ [][NextSharedKey]_vars

RecordOf(rows, tenant_id, key) ==
    CHOOSE r \in rows : r.tenant_id = tenant_id /\ r.key = key

ValidDraftOrOther ==
    last'.op = "promote_to_l2" =>
        (last'.args.draft.type \in L2Types /\ last'.args.draft.claims # <<>>)

(* C37: a keyed call of any of the four operations (promote_to_l2 with a
   valid draft) in a tenant that has a record of the key, whichever operation
   wrote it and in whichever workspace, returns the recorded result and
   changes nothing; a record of the key in another tenant does not count:
   without a record of its own tenant an upsert_event or commit_episode
   executes, writes rows and leaves a record of its own. *)
C37_KeySharedAcrossOperations ==
    [][/\ (/\ last'.op \in KeyedOps /\ last'.key # None
           /\ ValidDraftOrOther
           /\ HasRecord(idempotency, last'.scope.tenant_id, last'.key))
              => /\ last'.result =
                        JsonLoads(RecordOf(idempotency, last'.scope.tenant_id,
                                           last'.key).result_json)
                 /\ UNCHANGED <<tables, graph_nodes, graph_edges, minted>>
       /\ (/\ last'.op \in {"upsert_event", "commit_episode"}
           /\ last' # last
           /\ ~HasRecord(idempotency, last'.scope.tenant_id, last'.key))
              => /\ memory_l0' # memory_l0 \/ memory_l1' # memory_l1
                 /\ HasRecord(idempotency', last'.scope.tenant_id, last'.key)
                 /\ "id" \in DOMAIN last'.result
                 /\ last'.result.id \in {r.id : r \in memory_l0'} \cup {r.id : r \in memory_l1'}
      ]_vars

(* commit_episode was called in workspace w2 with a key that upsert_event had
   used in workspace w1 of the tenant: it returned the L0 result and there is
   no episode. *)
C37_Witness ==
    /\ last.op = "commit_episode" /\ last.scope.workspace_id = "w2"
    /\ \A r \in memory_l0 : r.workspace_id = "w1"
    /\ \E f \in firstCall :
          /\ f.tenant_id = last.scope.tenant_id /\ f.key = last.key
          /\ f.op = "upsert_event"
          /\ last.result = f.result
    /\ \A r \in memory_l1 : r.type # "EpisodeSummary"

(* The same key was used in both tenants, and both calls executed. *)
C37_OtherTenantWitness ==
    /\ \E r \in idempotency, n \in idempotency :
          r.key = n.key /\ r.tenant_id # n.tenant_id
    /\ last.op = "upsert_event"
    /\ \E r \in memory_l0 : r.id = last.result.id /\ r.tenant_id = last.scope.tenant_id

----------------------------------------------------------------------------
(* Episodes that were deprecated and are committed again: C38. *)

EpisodeStatusInputs ==
    [BaseInputs EXCEPT !.scopes = {ScopeS1, ScopeTask},
                       !.keys = {"k1", "k2", "k3"},
                       !.episodes = {Episode1, Episode2},
                       !.ids = L1Ids]

NextEpisodeStatus ==
    \/ CommitEpisode(EpisodeStatusInputs)
    \/ DeprecateMemory(EpisodeStatusInputs)

SpecEpisodeStatus == Init /\ [][NextEpisodeStatus]_vars

(* C38: a commit_episode that executes leaves the status of every L1 row as
   it was; when the scope names an EpisodeSummary of any status it creates no
   row and returns "updated" with the id of one of them, whose title and
   claims are now the payload's and whose confirmation_count is one more,
   its status unchanged. *)
C38_CommitKeepsStatus ==
    [][(/\ last'.op = "commit_episode"
        /\ FreshKey(last'.scope.tenant_id, last'.key)) =>
          /\ \A r \in memory_l1 : \E n \in memory_l1' :
                 n.id = r.id /\ n.status = r.status
          /\ EpisodesOf(last'.scope) # {} =>
                 /\ {n.id : n \in memory_l1'} = {r.id : r \in memory_l1}
                 /\ last'.result.action = "updated"
                 /\ \E r \in EpisodesOf(last'.scope) : \E n \in memory_l1' :
                        /\ r.id = last'.result.id /\ n.id = r.id
                        /\ n.status = r.status
                        /\ n.title = last'.args.payload.title
                        /\ n.claims = last'.args.payload.claims
                        /\ n.confirmation_count = r.confirmation_count + 1]_vars

(* The one episode of the session was deprecated and then committed again: it
   is still deprecated, carries the new title and claims and has been
   confirmed twice. *)
C38_Witness ==
    /\ last.op = "commit_episode" /\ last.args.payload = Episode2
    /\ "action" \in DOMAIN last.result /\ last.result.action = "updated"
    /\ Cardinality(memory_l1) = 1
    /\ \E r \in memory_l1 :
          /\ r.id = last.result.id
          /\ r.status = "deprecated"
          /\ r.title = Episode2.title /\ r.claims = Episode2.claims
          /\ r.confirmation_count = 2

----------------------------------------------------------------------------
(* Selectors of keys that forget_memory does not read: C39.  Events,
   observations and L2 nodes in two workspaces; forgets in one of them with
   the empty selector, a type and a tag. *)

ForgetOtherInputs ==
    [BaseInputs EXCEPT !.scopes = {ScopeS1, ScopeW2}, !.keys = {"k1", "k2"},
                       !.selectors = {SelectorAll, SelectorType, SelectorTags}]

ForgetOtherScopes == [ForgetOtherInputs EXCEPT !.scopes = {ScopeS1}]

ForgetOtherEvents == [ForgetOtherInputs EXCEPT !.keys = {"k3"}]

NextForgetOther ==
    \/ UpsertEvent(ForgetOtherEvents)
    \/ PromoteToL2(ForgetOtherInputs)
    \/ ForgetMemory(ForgetOtherScopes)

SpecForgetOther == Init /\ [][NextForgetOther]_vars

ReadKeys == {"user_id", "start_time", "end_time"}

OnlyOtherKeys(selector) ==
    selector # <<>> /\ \A i \in DOMAIN selector : selector[i][1] \notin ReadKeys

(* C39: a forget_memory whose selector has only keys other than user_id,
   start_time and end_time deletes every L0 and L1 row of the scope's tenant
   and workspace (and their FTS rows), tombstones every L2 node of it and
   leaves every other row as it was, as the empty selector does, and returns
   the counts of these rows; the hash it returns and stores is that of the
   selector's own key/value pairs. *)
C39_OtherKeysForgetEverything ==
    [][(ForgetStep /\ OnlyOtherKeys(last'.args.selector)) =>
          LET scope == last'.scope
              selector == last'.args.selector
              gone_l0 == {r \in memory_l0 : InWorkspace(r, scope)}
              gone_l1 == {r \in memory_l1 : InWorkspace(r, scope)}
              hit_l2 == {r \in memory_l2_nodes : InWorkspace(r, scope)}
          IN  /\ memory_l0' = memory_l0 \ gone_l0
              /\ memory_l1' = memory_l1 \ gone_l1
              /\ {x.id : x \in BagToSet(memory_l1_fts')} = {r.id : r \in memory_l1'}
              /\ memory_l2_nodes' =
                     {IF r \in hit_l2 THEN [r EXCEPT !.status = "tombstoned"] ELSE r :
                         r \in memory_l2_nodes}
              /\ last'.result.deleted_l0 = Cardinality(gone_l0)
              /\ last'.result.deleted_l1 = Cardinality(gone_l1)
              /\ last'.result.tombstoned_l2 = Cardinality(hit_l2)
              /\ last'.result.tombstone_hash = {selector[i] : i \in DOMAIN selector}
              /\ last'.result.tombstone_hash # {}
              /\ \E t \in tombstones' :
                     /\ InWorkspace(t, scope)
                     /\ t.selector_hash = last'.result.tombstone_hash]_vars

(* A forget with a type only removed an event and its observation and
   tombstoned a VerifiedFact of the workspace; the node of the other workspace
   is active. *)
C39_Witness ==
    /\ last.op = "forget_memory" /\ last.args.selector = SelectorType
    /\ last.result.deleted_l0 >= 1 /\ last.result.deleted_l1 >= 1
    /\ last.result.tombstoned_l2 >= 1
    /\ last.result.tombstone_hash = {<<"type", "Observation">>}
    /\ \E r \in memory_l2_nodes :
          InWorkspace(r, last.scope) /\ r.type = "VerifiedFact" /\ r.status = "tombstoned"
    /\ \E r \in memory_l2_nodes : ~InWorkspace(r, last.scope) /\ r.status = "active"

----------------------------------------------------------------------------
(* Retrieval of rows whatever their status: C40.  Two observations and two
   Decision nodes of one workspace, linked, deprecated, compacted and
   forgotten in any order, then searched (with no filter, a type, a status)
   and expanded. *)

LifecycleInputs ==
    [BaseInputs EXCEPT !.keys = {"k1", "k2"}, !.drafts = {DraftLeak},
                       !.queries = {"leak"}, !.tops = {5},
                       !.filters = {NoFilters, FilterType, FilterStatus},
                       !.ids = {L2Base + 2}, !.l2ids = {L2Base + 1},
                       !.pairs = {<<L2Base + 1, L2Base + 2>>}]

LifecycleEvents == [LifecycleInputs EXCEPT !.keys = {"k3", "k4"}]

NextLifecycle ==
    \/ UpsertEvent(LifecycleEvents)
    \/ PromoteToL2(LifecycleInputs)
    \/ LinkMemories(LifecycleInputs)
    \/ DeprecateMemory(LifecycleInputs)
    \/ GcCompact(LifecycleInputs)
    \/ ForgetMemory(LifecycleInputs)
    \/ SearchMemory(LifecycleInputs)
    \/ ExpandMemory(LifecycleInputs)

SpecLifecycle == Init /\ [][NextLifecycle]_vars

(* The rows of a table that the last search asked for: of the scope's tenant
   and workspace (and repository), of the type given, with the query among
   the words of their FTS row. *)
AskedFor(rows, fts) ==
    {r \in rows :
        /\ InWorkspace(r, last.scope)
        /\ last.scope.repo_id # None => r.repo_id \in {last.scope.repo_id, None}
        /\ \A j \in DOMAIN last.args.filters :
               (last.args.filters[j][1] = "type" /\ last.args.filters[j][2] # "")
                   => r.type = last.args.filters[j][2]
        /\ \E f \in BagToSet(fts) :
               f.id = r.id /\ last.args.query \in TitleTokens(f.title)}

HasStatusFilter(filters) ==
    \E j \in DOMAIN filters : filters[j][1] = "status" /\ filters[j][2] # ""

SameEdge(e, x) ==
    /\ e.tenant_id = x.tenant_id /\ e.workspace_id = x.workspace_id
    /\ e.from_id = x.from_id /\ e.rel = x.rel /\ e.to_id = x.to_id

(* C40: a search_memory without a status filter, whose hits are fewer than
   top_k and fit the budget, returns every row of memory_l1 and
   memory_l2_nodes that matches the scope, the type and the query, whatever
   the row's status; an expand_memory whose nodes fit the budget returns every
   node that the scope's edges reach from the seed within the hops, whatever
   its status; no call removes an edge, and forget_memory, deprecate_memory
   and gc_compact leave memory_l2_edges as it was. *)
C40_StatusDoesNotHide ==
    /\ []((last.op = "search_memory" /\ ~HasStatusFilter(last.args.filters)
             /\ Len(last.args.rows) < last.args.top_k
             /\ ~last.result.truncation.truncated) =>
            {r.id : r \in AskedFor(memory_l1, memory_l1_fts)}
                \cup {r.id : r \in AskedFor(memory_l2_nodes, memory_l2_fts)}
                \subseteq ItemIds(last.result))
    /\ []((last.op = "expand_memory" /\ last.args.mode = "disabled"
             /\ ~last.result.truncation.truncated) =>
            {r.id : r \in memory_l2_nodes} \cap
                (ReachWithin(ScopeEdges(Store, last.scope), last.args.seed_id,
                             last.args.hops) \ {last.args.seed_id})
                \subseteq ItemIds(last.result))
    /\ [][/\ \A e \in memory_l2_edges : \E x \in memory_l2_edges' : SameEdge(e, x)
          /\ last'.op \in {"forget_memory", "deprecate_memory", "gc_compact"}
                => memory_l2_edges' = memory_l2_edges]_vars

(* A search without filters returned an archived observation, a tombstoned
   node and a deprecated node, and an edge of the tombstoned node is in
   memory_l2_edges. *)
C40_Witness ==
    /\ last.op = "search_memory" /\ last.args.filters = NoFilters
    /\ \E i, j, k \in DOMAIN last.result.items :
          /\ last.result.items[i].status = "archived"
          /\ last.result.items[j].status = "tombstoned"
          /\ last.result.items[k].status = "deprecated"
          /\ \E e \in memory_l2_edges :
                last.result.items[j].id \in {e.from_id, e.to_id}

(* An expansion returned the tombstoned or deprecated node its seed leads
   to. *)
C40_ExpandWitness ==
    /\ last.op = "expand_memory"
    /\ \E i \in DOMAIN last.result.items :
          last.result.items[i].status \in {"tombstoned", "deprecated"}

====
